---- MODULE Spec2Model ----
(***************************************************************************)
(* PerformanceMonitoringService (src/src/services/                         *)
(* performanceMonitoringService.ts) as a state machine, and the functions  *)
(* of PerformanceReportService (src/src/services/                          *)
(* performanceReportService.ts) applied to its snapshots.                  *)
(*                                                                         *)
(* Numbers.  Durations are integers; averages, percentage changes and the  *)
(* regression threshold are exact rationals [num, den] in lowest terms     *)
(* with den > 0.  The rounding of IEEE-754 doubles, NaN and the infinities *)
(* are not modelled.                                                       *)
(*                                                                         *)
(* Arrays.  A metric list is a sequence.  A snapshot's `metrics` field is  *)
(* [items, sameObject]: the contents of its array and whether that array   *)
(* is the very object this.metrics refers to, so that an in-place push on  *)
(* the live store reaches exactly the arrays that alias it.                *)
(*                                                                         *)
(* Time.  Date.now() and performance.now() read one clock, `now`, in      *)
(* whole milliseconds; it advances only in the specifications that have a  *)
(* Tick action.                                                            *)
(***************************************************************************)
EXTENDS Integers, Sequences, FiniteSets, TLC

VARIABLES
    metrics,              \* this.metrics: the live metric store
    benchmarks,           \* this.benchmarks: name -> PerformanceBenchmark
    snapshots,            \* this.snapshots: retained snapshot history
    maxMetrics,           \* this.maxMetrics (readonly)
    maxSnapshots,         \* this.maxSnapshots (readonly)
    regressionThreshold,  \* this.regressionThreshold
    returned,             \* the call that has just returned, with its value
    recorded,             \* history: metrics recorded since the last clearMetrics
    taken,                \* history: snapshots created since the last clearSnapshots
    nRecords,             \* history: number of recordMetric calls so far
    created,              \* history: number of createSnapshot calls so far
    scenario,             \* the scripted caller of the regression tests
    now,                  \* the clock read by Date.now() and performance.now()
    pending,              \* measureAsync calls whose work has not settled yet
    plan,                 \* the scripted caller of the report service
    report,               \* the first generateReport call of that caller
    between               \* history: the last two createSnapshot calls and
                          \* what was done to the store from one to the other

\* the clock, and the callers other than the regression tests
environment == <<now, pending, plan, report, between>>

vars == <<metrics, benchmarks, snapshots, maxMetrics, maxSnapshots,
          regressionThreshold, returned, recorded, taken, nRecords, created,
          scenario, now, pending, plan, report, between>>

----------------------------------------------------------------------------
(* Bounds of the model *)

\* capacity of the metric store in the exploratory specification
SmallMaxMetrics == 2
\* capacity of the snapshot history in the exploratory specification
SmallMaxSnapshots == 2
\* recordMetric calls explored
MaxRecords == 3
\* createSnapshot calls explored
MaxSnapshotCalls == 3
\* milliseconds the clock advances
MaxClock == 2
\* metrics recorded while the measurement helpers are explored
MaxMeasured == 2
\* createSnapshot calls while the measurement helpers are explored
MaxMeasureSnapshots == 1
\* the longest run of one metric the caller of the report tests records
MaxBlock == 19
\* createSnapshot calls of the caller that asks
MaxQuerySnapshots == 2
\* measureAsync calls that overlap
MaxOverlap == 2

(* Program constants *)

DefaultMaxMetrics == 10000
DefaultMaxSnapshots == 100
SlowestCount == 10
\* the regression tests record each duration ten times
ScenarioReps == 10

----------------------------------------------------------------------------
(* Numbers *)

Abs(n) == IF n < 0 THEN -n ELSE n

Max(a, b) == IF a >= b THEN a ELSE b

RECURSIVE GCD(_, _)
GCD(a, b) == IF b = 0 THEN a ELSE GCD(b, a % b)

\* n / d for d # 0, in lowest terms
Rat(n, d) ==
    LET s == IF d < 0 THEN -1 ELSE 1
        g == GCD(Abs(n), Abs(d))
    IN  [num |-> (s * n) \div g, den |-> (s * d) \div g]

FromInt(n) == [num |-> n, den |-> 1]

RatSub(a, b) == Rat(a.num * b.den - b.num * a.den, a.den * b.den)

\* a / b; a division by zero gives Infinity, -Infinity or NaN, held as
\* 1/0, -1/0 and 0/0: RatGT is then the comparison of JavaScript
RatDiv(a, b) ==
    IF b.num = 0
    THEN [num |-> IF a.num > 0 THEN 1 ELSE IF a.num < 0 THEN -1 ELSE 0,
          den |-> 0]
    ELSE Rat(a.num * b.den, a.den * b.num)

RatGT(a, b) == a.num * b.den > b.num * a.den

----------------------------------------------------------------------------
(* Inputs *)

Names == {"form-generation", "custom-op"}

Durations == {-100, 0, 600}

Categories == {"generation"}

\* regression thresholds a caller sets: the default, and a negative one
Thresholds == {Rat(15, 100), Rat(-1, 2)}

DefaultRegressionThreshold == Rat(15, 100)

Benchmark(n, c, t, w, k) ==
    [name |-> n, category |-> c, targetMs |-> t,
     warningThresholdMs |-> w, criticalThresholdMs |-> k]

\* the benchmark a caller registers: a replacement of a default
BenchmarkInputs ==
    { Benchmark("form-generation", "generation", 100, 200, 300) }

DefaultBenchmarks ==
    { Benchmark("sidebar-render-initial", "render", 500, 750, 1500),
      Benchmark("sidebar-render-update", "render", 200, 350, 750),
      Benchmark("form-generation", "generation", 100, 200, 500),
      Benchmark("simulation-panel-render", "render", 300, 500, 1000),
      Benchmark("simulation-panel-update", "update", 150, 300, 750),
      Benchmark("ui-interaction-response", "interaction", 100, 200, 500) }

\* the registry after initializeDefaultBenchmarks
initializeDefaultBenchmarks ==
    [n \in {b.name : b \in DefaultBenchmarks} |->
        CHOOSE b \in DefaultBenchmarks : b.name = n]

\* a metadata argument left out
Undefined == [defined |-> FALSE]

\* a metadata object with the given properties
Object(properties) == [defined |-> TRUE, properties |-> properties]

Metric(n, d, t, c, md) ==
    [name |-> n, duration |-> d, timestamp |-> t, category |-> c,
     metadata |-> md]

----------------------------------------------------------------------------
(* Array helpers *)

\* Array.prototype.slice(-n) for n > 0
SliceLast(s, n) ==
    IF Len(s) <= n THEN s ELSE SubSeq(s, Len(s) - n + 1, Len(s))

\* Array.prototype.slice(0, n)
SliceFirst(s, n) == IF Len(s) <= n THEN s ELSE SubSeq(s, 1, n)

\* drops the newest entries instead of the oldest
TrimMetricsKeepOldest(pushed, cap) ==
    IF Len(pushed) > cap THEN SliceFirst(pushed, cap) ELSE pushed

\* if (this.metrics.length > this.maxMetrics)
\*     this.metrics = this.metrics.slice(-this.maxMetrics)
TrimMetrics(pushed, cap) ==
    IF Len(pushed) > cap THEN SliceLast(pushed, cap) ELSE pushed

\* insert x into the sorted list s before the first element it precedes:
\* the step of a stable sort
RECURSIVE InsertAscending(_, _)
InsertAscending(x, s) ==
    IF s = <<>> THEN <<x>>
    ELSE IF x < Head(s) THEN <<x>> \o s
         ELSE <<Head(s)>> \o InsertAscending(x, Tail(s))

\* durations.sort((a, b) => a - b)
RECURSIVE SortAscending(_)
SortAscending(s) ==
    IF s = <<>> THEN <<>>
    ELSE InsertAscending(s[Len(s)], SortAscending(SubSeq(s, 1, Len(s) - 1)))

\* a metric is put before the metrics of its own duration
RECURSIVE InsertBeforeEquals(_, _)
InsertBeforeEquals(m, s) ==
    IF s = <<>> THEN <<m>>
    ELSE IF m.duration >= Head(s).duration THEN <<m>> \o s
         ELSE <<Head(s)>> \o InsertBeforeEquals(m, Tail(s))

RECURSIVE InsertSlowestFirst(_, _)
InsertSlowestFirst(m, s) ==
    IF s = <<>> THEN <<m>>
    ELSE IF m.duration > Head(s).duration THEN <<m>> \o s
         ELSE <<Head(s)>> \o InsertSlowestFirst(m, Tail(s))

\* [...metrics].sort((a, b) => b.duration - a.duration): stable
RECURSIVE SortSlowestFirst(_)
SortSlowestFirst(ms) ==
    IF ms = <<>> THEN <<>>
    ELSE InsertSlowestFirst(ms[Len(ms)],
                            SortSlowestFirst(SubSeq(ms, 1, Len(ms) - 1)))

RECURSIVE Sum(_)
Sum(s) == IF s = <<>> THEN 0 ELSE Head(s) + Sum(Tail(s))

\* the distinct names of a metric list, in order of first occurrence
\* (the iteration order of new Set(metrics.map(m => m.name)))
RECURSIVE NamesInOrder(_)
NamesInOrder(ms) ==
    IF ms = <<>> THEN <<>>
    ELSE LET front == NamesInOrder(SubSeq(ms, 1, Len(ms) - 1))
             n == ms[Len(ms)].name
         IN  IF \E i \in 1..Len(front) : front[i] = n THEN front
             ELSE Append(front, n)

----------------------------------------------------------------------------
(* Statistics *)

Null == [kind |-> "null"]

\* the filter lets every metric through
getMetricsOfAnyName(ms, name) == ms

\* this.metrics.filter(m => m.name === name)
RECURSIVE getMetricsForName(_, _)
getMetricsForName(ms, name) ==
    IF ms = <<>> THEN <<>>
    ELSE IF Head(ms).name = name
         THEN <<Head(ms)>> \o getMetricsForName(Tail(ms), name)
         ELSE getMetricsForName(Tail(ms), name)

\* sorted[Math.max(0, Math.ceil((p / 100) * sorted.length) - 1)]
percentile(sorted, p) ==
    LET index == ((p * Len(sorted) + 99) \div 100) - 1
    IN  sorted[Max(0, index) + 1]

\* this.metrics.filter(m => m.category === category)
RECURSIVE getMetricsForCategory(_, _)
getMetricsForCategory(ms, category) ==
    IF ms = <<>> THEN <<>>
    ELSE IF Head(ms).category = category
         THEN <<Head(ms)>> \o getMetricsForCategory(Tail(ms), category)
         ELSE getMetricsForCategory(Tail(ms), category)

\* the durations left in recording order
UnsortedDurations(ms) == [i \in 1..Len(ms) |-> ms[i].duration]

\* metrics.map(m => m.duration).sort((a, b) => a - b)
SortedDurations(ms) ==
    SortAscending([i \in 1..Len(ms) |-> ms[i].duration])

\* a name without metrics is given the statistics of the whole store
calculateStatsOfWholeStore(ms, metricName) ==
    LET named == getMetricsForName(ms, metricName)
        found == IF Len(named) = 0 THEN ms ELSE named
        durations == SortedDurations(found)
    IN  IF Len(found) = 0 THEN Null
        ELSE [count |-> Len(durations),
              average |-> Rat(Sum(durations), Len(durations)),
              min |-> durations[1],
              max |-> durations[Len(durations)],
              p50 |-> percentile(durations, 50),
              p95 |-> percentile(durations, 95),
              p99 |-> percentile(durations, 99)]

calculateStats(ms, metricName) ==
    LET found == getMetricsForName(ms, metricName)
        durations == SortedDurations(found)
    IN  IF Len(found) = 0 THEN Null
        ELSE [count |-> Len(durations),
              average |-> Rat(Sum(durations), Len(durations)),
              min |-> durations[1],
              max |-> durations[Len(durations)],
              p50 |-> percentile(durations, 50),
              p95 |-> percentile(durations, 95),
              p99 |-> percentile(durations, 99)]

----------------------------------------------------------------------------
(* Snapshots *)

\* the array itself instead of a copy of it
AliasArray(arr) == [items |-> arr, sameObject |-> TRUE]

\* [...arr]: a new array with the same elements
CopyArray(arr) == [items |-> arr, sameObject |-> FALSE]

\* the bottom of the sorted list instead of its top
SlowestOperationsFromTheEnd(ms) ==
    SliceLast(SortSlowestFirst(ms), SlowestCount)

\* the top of the list by duration, descending
SlowestOperations(ms) ==
    SliceFirst(SortSlowestFirst(ms), SlowestCount)

\* Record<string, V> as the list of its entries in insertion order
Entry(k, v) == [key |-> k, value |-> v]

HasKey(obj, k) == \E i \in 1..Len(obj) : obj[i].key = k

Lookup(obj, k) == obj[CHOOSE i \in 1..Len(obj) : obj[i].key = k].value

\* the snapshot is taken of the metrics pushed since the newest retained
\* snapshot only
BuildSnapshotOfNewMetrics(ms) ==
    LET seen == IF snapshots = <<>> THEN 0
                ELSE Len(snapshots[Len(snapshots)].metrics.items)
        fresh == IF seen <= Len(ms) THEN SubSeq(ms, seen + 1, Len(ms)) ELSE ms
        metricNames == NamesInOrder(fresh)
    IN  [timestamp |-> now,
         metrics |-> CopyArray(fresh),
         averages |->
            [i \in 1..Len(metricNames) |->
                Entry(metricNames[i],
                      calculateStats(fresh, metricNames[i]).average)],
         percentiles |->
            [i \in 1..Len(metricNames) |->
                LET stats == calculateStats(fresh, metricNames[i])
                IN  Entry(metricNames[i],
                          [p50 |-> stats.p50, p95 |-> stats.p95, p99 |-> stats.p99])],
         slowestOperations |-> SlowestOperations(fresh)]

BuildSnapshot(ms) ==
    LET metricNames == NamesInOrder(ms)
    IN  [timestamp |-> now,
         metrics |-> CopyArray(ms),
         averages |->
            [i \in 1..Len(metricNames) |->
                Entry(metricNames[i], calculateStats(ms, metricNames[i]).average)],
         percentiles |->
            [i \in 1..Len(metricNames) |->
                LET stats == calculateStats(ms, metricNames[i])
                IN  Entry(metricNames[i],
                          [p50 |-> stats.p50, p95 |-> stats.p95, p99 |-> stats.p99])],
         slowestOperations |-> SlowestOperations(ms)]

\* drops the newest snapshots instead of the oldest
PushSnapshotKeepOldest(snaps, snapshot, cap) ==
    LET pushed == Append(snaps, snapshot)
    IN  IF Len(pushed) > cap THEN SliceFirst(pushed, cap) ELSE pushed

\* this.snapshots.push(snapshot), then
\* if (this.snapshots.length > this.maxSnapshots)
\*     this.snapshots = this.snapshots.slice(-this.maxSnapshots)
PushSnapshot(snaps, snapshot, cap) ==
    LET pushed == Append(snaps, snapshot)
    IN  IF Len(pushed) > cap THEN SliceLast(pushed, cap) ELSE pushed

----------------------------------------------------------------------------
(* Regression detection *)

\* compares with the warning threshold instead of the critical one
SeverityByWarningThreshold(bms, metricName, currentAvg) ==
    IF metricName \in DOMAIN bms
       /\ RatGT(currentAvg, FromInt(bms[metricName].warningThresholdMs))
    THEN "critical" ELSE "warning"

\* benchmark && currentAvg > benchmark.criticalThresholdMs
\*     ? 'critical' : 'warning'
SeverityOf(bms, metricName, currentAvg) ==
    IF metricName \in DOMAIN bms
       /\ RatGT(currentAvg, FromInt(bms[metricName].criticalThresholdMs))
    THEN "critical" ELSE "warning"

\* only a name absent from the previous snapshot is skipped
PreviousAvgAbsent(previous, metricName) == ~HasKey(previous, metricName)

\* !previousAvg: the name is absent from the previous averages, or its
\* average there is 0
NoPreviousAvg(previous, metricName) ==
    \/ ~HasKey(previous, metricName)
    \/ Lookup(previous, metricName).num = 0

\* divides by the current average instead of the previous one
PercentageChangeOfCurrent(currentAvg, previousAvg) ==
    RatDiv(RatSub(currentAvg, previousAvg), currentAvg)

\* (currentAvg - previousAvg) / previousAvg
PercentageChange(currentAvg, previousAvg) ==
    RatDiv(RatSub(currentAvg, previousAvg), previousAvg)

\* a change in either direction counts
ExceedsThresholdEitherWay(percentageChange, threshold) ==
    RatGT([percentageChange EXCEPT !.num = Abs(@)], threshold)

\* a change equal to the threshold counts
ReachesThreshold(percentageChange, threshold) ==
    ~RatGT(threshold, percentageChange)

\* percentageChange > this.regressionThreshold
ExceedsThreshold(percentageChange, threshold) ==
    RatGT(percentageChange, threshold)

\* the loop over Object.entries(currentSnapshot.averages), from entry i on
RECURSIVE AlertsFrom(_, _, _, _, _)
AlertsFrom(i, current, previous, bms, threshold) ==
    IF i > Len(current) THEN <<>>
    ELSE LET metricName == current[i].key
             currentAvg == current[i].value
             rest == AlertsFrom(i + 1, current, previous, bms, threshold)
         IN  IF NoPreviousAvg(previous, metricName) THEN rest
             ELSE LET previousAvg == Lookup(previous, metricName)
                      percentageChange == PercentageChange(currentAvg, previousAvg)
                  IN  IF ExceedsThreshold(percentageChange, threshold)
                      THEN <<[metricName |-> metricName,
                              previousAverage |-> previousAvg,
                              currentAverage |-> currentAvg,
                              percentageChange |-> percentageChange,
                              severity |-> SeverityOf(bms, metricName, currentAvg)]>>
                           \o rest
                      ELSE rest

\* the newest snapshot again instead of the one before it
PreviousSnapshotOffByOne(snaps) == snaps[Len(snaps)]

\* this.snapshots[this.snapshots.length - 2]
PreviousSnapshot(snaps) == snaps[Len(snaps) - 1]

CurrentSnapshot(snaps) == snaps[Len(snaps)]

\* needs one snapshot only, and compares it with itself
detectRegressionsFromOne(snaps, bms, threshold) ==
    IF Len(snaps) < 1 THEN <<>>
    ELSE AlertsFrom(1, CurrentSnapshot(snaps).averages,
                    snaps[Max(1, Len(snaps) - 1)].averages, bms, threshold)

detectRegressions(snaps, bms, threshold) ==
    IF Len(snaps) < 2 THEN <<>>
    ELSE AlertsFrom(1, CurrentSnapshot(snaps).averages,
                    PreviousSnapshot(snaps).averages, bms, threshold)

----------------------------------------------------------------------------
(* Operations *)

NoScenario == [baseline |-> 0, later |-> 0, step |-> -1]

\* this.metrics.push(metric) seen from a snapshot of the history
AfterPush(snapshot, metric) ==
    IF snapshot.metrics.sameObject
    THEN [snapshot EXCEPT !.metrics.items = Append(@, metric)]
    ELSE snapshot

\* this.metrics = <another array> seen from a snapshot of the history
AfterReassign(snapshot) == [snapshot EXCEPT !.metrics.sameObject = FALSE]

\* the body of recordMetric, whoever calls it
record(name, duration, category, metadata) ==
    LET metric == Metric(name, duration, now, category, metadata)
        pushed == Append(metrics, metric)
        trims == Len(pushed) > maxMetrics
    IN  /\ metrics' = TrimMetrics(pushed, maxMetrics)
        /\ snapshots' =
              [i \in 1..Len(snapshots) |->
                  IF trims THEN AfterReassign(AfterPush(snapshots[i], metric))
                  ELSE AfterPush(snapshots[i], metric)]
        /\ recorded' = Append(recorded, metric)
        /\ nRecords' = nRecords + 1
        /\ UNCHANGED <<benchmarks, maxMetrics, maxSnapshots, regressionThreshold,
                       taken, created>>

recordMetric(name, duration, category, metadata) ==
    /\ record(name, duration, category, metadata)
    /\ returned' = [op |-> "recordMetric"]

\* the metadata as supplied, without the error flag
FailureMetadataUntagged(metadata) == metadata

\* { ...metadata, error: true }
FailureMetadata(metadata) ==
    LET given == IF metadata.defined THEN DOMAIN metadata.properties ELSE {}
    IN  Object([k \in given \cup {"error"} |->
                   IF k = "error" THEN TRUE ELSE metadata.properties[k]])

\* s without its i-th element
Remove(s, i) == SubSeq(s, 1, i - 1) \o SubSeq(s, i + 1, Len(s))

\* measureSync or measureAsync up to the call of fn:
\* const start = performance.now(), then the work runs
measureStart(helper, name, category, metadata) ==
    /\ pending' = Append(pending,
                         [helper |-> helper, name |-> name,
                          category |-> category, metadata |-> metadata,
                          start |-> now])
    /\ UNCHANGED <<metrics, benchmarks, snapshots, maxMetrics, maxSnapshots,
                   regressionThreshold, returned, recorded, taken, nRecords,
                   created>>

\* measureSync or measureAsync from the end of fn: the try branch when the
\* work returned (or its promise fulfilled), the catch branch when it threw
\* (or its promise rejected)
measureEnd(i, work) ==
    LET call == pending[i]
        duration == now - call.start
    IN  /\ IF work.ok
           THEN record(call.name, duration, call.category, call.metadata)
           ELSE record(call.name, duration, call.category,
                       FailureMetadata(call.metadata))
        /\ pending' = Remove(pending, i)
        /\ returned' = [op |-> call.helper,
                        work |-> work,
                        outcome |-> IF work.ok THEN "return" ELSE "throw",
                        value |-> work.value]

\* the promise the call awaits has settled, and the rest of the call waits
\* in the job queue
Settled(call) == "work" \in DOMAIN call

\* the places of the calls in flight whose promise has settled
SettledPlaces == {j \in 1..Len(pending) : Settled(pending[j])}

\* await fn(): the promise of the i-th call in flight fulfils or rejects,
\* which queues the rest of measureAsync behind the jobs already queued
workSettles(i, work) ==
    /\ ~Settled(pending[i])
    /\ LET call == pending[i]
           last == IF SettledPlaces = {} THEN 0
                   ELSE CHOOSE t \in {pending[j].turn : j \in SettledPlaces} :
                           \A j \in SettledPlaces : pending[j].turn <= t
       IN  pending' = [pending EXCEPT ![i] =
                          [helper |-> call.helper, name |-> call.name,
                           category |-> call.category,
                           metadata |-> call.metadata, start |-> call.start,
                           work |-> work, turn |-> last + 1]]
    /\ UNCHANGED <<metrics, benchmarks, snapshots, maxMetrics, maxSnapshots,
                   regressionThreshold, returned, recorded, taken, nRecords,
                   created>>

\* the settled calls go on in the order in which they were started
resumeInStartOrder(i) ==
    /\ i \in SettledPlaces
    /\ \A j \in SettledPlaces : i <= j
    /\ measureEnd(i, pending[i].work)

\* the job at the head of the queue runs: measureAsync from its await on
resume(i) ==
    /\ i \in SettledPlaces
    /\ \A j \in SettledPlaces : pending[i].turn <= pending[j].turn
    /\ measureEnd(i, pending[i].work)

clearMetrics ==
    /\ metrics' = <<>>
    /\ snapshots' = [i \in 1..Len(snapshots) |-> AfterReassign(snapshots[i])]
    /\ recorded' = <<>>
    /\ returned' = [op |-> "clearMetrics"]
    /\ UNCHANGED <<benchmarks, maxMetrics, maxSnapshots, regressionThreshold,
                   taken, nRecords, created>>

createSnapshot ==
    LET snapshot == BuildSnapshot(metrics)
    IN  /\ snapshots' = PushSnapshot(snapshots, snapshot, maxSnapshots)
        /\ taken' = Append(taken, snapshot)
        /\ created' = created + 1
        /\ returned' = [op |-> "createSnapshot", value |-> snapshot]
        /\ UNCHANGED <<metrics, benchmarks, maxMetrics, maxSnapshots,
                       regressionThreshold, recorded, nRecords>>

detectRegressionsCall ==
    /\ returned' = [op |-> "detectRegressions",
                    value |-> detectRegressions(snapshots, benchmarks,
                                                regressionThreshold)]
    /\ UNCHANGED <<metrics, benchmarks, snapshots, maxMetrics, maxSnapshots,
                   regressionThreshold, recorded, taken, nRecords, created>>

registerBenchmark(benchmark) ==
    /\ benchmarks' =
          [n \in DOMAIN benchmarks \cup {benchmark.name} |->
              IF n = benchmark.name THEN benchmark ELSE benchmarks[n]]
    /\ returned' = [op |-> "registerBenchmark", benchmark |-> benchmark]
    /\ UNCHANGED <<metrics, snapshots, maxMetrics, maxSnapshots,
                   regressionThreshold, recorded, taken, nRecords, created>>

\* a duration equal to a threshold crosses it
checkBenchmarkInclusive(bms, metricName, duration) ==
    IF metricName \notin DOMAIN bms
    THEN [passed |-> TRUE, status |-> "ok"]
    ELSE LET benchmark == bms[metricName]
         IN  IF duration >= benchmark.criticalThresholdMs
             THEN [passed |-> FALSE, status |-> "critical",
                   benchmark |-> benchmark]
             ELSE IF duration >= benchmark.warningThresholdMs
             THEN [passed |-> FALSE, status |-> "warning",
                   benchmark |-> benchmark]
             ELSE [passed |-> TRUE, status |-> "ok", benchmark |-> benchmark]

\* a name without a benchmark is held to the 'ui-interaction-response' one
checkBenchmarkWithFallback(bms, metricName, duration) ==
    LET benchmark == IF metricName \in DOMAIN bms THEN bms[metricName]
                     ELSE bms["ui-interaction-response"]
    IN  IF duration > benchmark.criticalThresholdMs
        THEN [passed |-> FALSE, status |-> "critical", benchmark |-> benchmark]
        ELSE IF duration > benchmark.warningThresholdMs
        THEN [passed |-> FALSE, status |-> "warning", benchmark |-> benchmark]
        ELSE [passed |-> TRUE, status |-> "ok", benchmark |-> benchmark]

checkBenchmark(bms, metricName, duration) ==
    IF metricName \notin DOMAIN bms
    THEN [passed |-> TRUE, status |-> "ok"]
    ELSE LET benchmark == bms[metricName]
         IN  IF duration > benchmark.criticalThresholdMs
             THEN [passed |-> FALSE, status |-> "critical",
                   benchmark |-> benchmark]
             ELSE IF duration > benchmark.warningThresholdMs
             THEN [passed |-> FALSE, status |-> "warning",
                   benchmark |-> benchmark]
             ELSE [passed |-> TRUE, status |-> "ok", benchmark |-> benchmark]

checkBenchmarkCall(metricName, duration) ==
    /\ returned' = [op |-> "checkBenchmark", metricName |-> metricName,
                    duration |-> duration,
                    value |-> checkBenchmark(benchmarks, metricName, duration)]
    /\ UNCHANGED <<metrics, benchmarks, snapshots, maxMetrics, maxSnapshots,
                   regressionThreshold, recorded, taken, nRecords, created>>

\* a call that only answers: nothing of the instance is assigned
answers(op, arguments, value) ==
    /\ returned' = [op |-> op, arguments |-> arguments, value |-> value]
    /\ UNCHANGED <<metrics, benchmarks, snapshots, maxMetrics, maxSnapshots,
                   regressionThreshold, recorded, taken, nRecords, created>>

getMetricsForNameCall(name) ==
    answers("getMetricsForName", <<name>>,
            CopyArray(getMetricsForName(metrics, name)))

getMetricsForCategoryCall(category) ==
    answers("getMetricsForCategory", <<category>>,
            CopyArray(getMetricsForCategory(metrics, category)))

calculateStatsCall(metricName) ==
    answers("calculateStats", <<metricName>>,
            calculateStats(metrics, metricName))

\* this.benchmarks.get(metricName)
getBenchmark(bms, metricName) ==
    IF metricName \in DOMAIN bms THEN bms[metricName] ELSE Undefined

getBenchmarkCall(metricName) ==
    answers("getBenchmark", <<metricName>>, getBenchmark(benchmarks, metricName))

\* hands the history itself out and starts a new one
getSnapshotsAndClear ==
    /\ returned' = [op |-> "getSnapshots", arguments |-> <<>>,
                    value |-> AliasArray(snapshots)]
    /\ snapshots' = <<>>
    /\ UNCHANGED <<metrics, benchmarks, maxMetrics, maxSnapshots,
                   regressionThreshold, recorded, taken, nRecords, created>>

\* [...this.snapshots]
getSnapshotsCall ==
    answers("getSnapshots", <<>>, CopyArray(snapshots))

clearSnapshots ==
    /\ snapshots' = <<>>
    /\ taken' = <<>>
    /\ returned' = [op |-> "clearSnapshots"]
    /\ UNCHANGED <<metrics, benchmarks, maxMetrics, maxSnapshots,
                   regressionThreshold, recorded, nRecords, created>>

setRegressionThreshold(percentage) ==
    /\ regressionThreshold' = percentage
    /\ returned' = [op |-> "setRegressionThreshold"]
    /\ UNCHANGED <<metrics, benchmarks, snapshots, maxMetrics, maxSnapshots,
                   recorded, taken, nRecords, created>>

----------------------------------------------------------------------------
(* A fresh instance, and a caller that calls anything in any order *)

Fresh(capMetrics, capSnapshots) ==
    /\ metrics = <<>>
    /\ benchmarks = initializeDefaultBenchmarks
    /\ snapshots = <<>>
    /\ maxMetrics = capMetrics
    /\ maxSnapshots = capSnapshots
    /\ regressionThreshold = DefaultRegressionThreshold
    /\ returned = [op |-> "constructor"]
    /\ recorded = <<>>
    /\ taken = <<>>
    /\ nRecords = 0
    /\ created = 0

\* no snapshot has been created yet
NoSnapshotYet ==
    [previous |-> Null, last |-> Null, undisturbed |-> TRUE,
     cleared |-> FALSE, overflowed |-> FALSE]

\* no time has passed, and no other caller is at work
Idle ==
    /\ now = 0
    /\ pending = <<>>
    /\ plan = Null
    /\ report = Null
    /\ between = NoSnapshotYet

Init ==
    /\ Fresh(SmallMaxMetrics, SmallMaxSnapshots)
    /\ scenario = NoScenario
    /\ Idle

RecordMetric ==
    /\ nRecords < MaxRecords
    /\ \E name \in Names, duration \in Durations, category \in Categories :
          recordMetric(name, duration, category, Undefined)
    /\ UNCHANGED <<scenario, environment>>

ClearMetrics == clearMetrics /\ UNCHANGED <<scenario, environment>>

CreateSnapshot ==
    /\ created < MaxSnapshotCalls
    /\ createSnapshot
    /\ UNCHANGED <<scenario, environment>>

DetectRegressions == detectRegressionsCall /\ UNCHANGED <<scenario, environment>>

RegisterBenchmark ==
    /\ \E benchmark \in BenchmarkInputs : registerBenchmark(benchmark)
    /\ UNCHANGED <<scenario, environment>>

ClearSnapshots == clearSnapshots /\ UNCHANGED <<scenario, environment>>

SetRegressionThreshold ==
    /\ \E percentage \in Thresholds : setRegressionThreshold(percentage)
    /\ UNCHANGED <<scenario, environment>>

Next ==
    \/ RecordMetric
    \/ ClearMetrics
    \/ CreateSnapshot
    \/ DetectRegressions
    \/ RegisterBenchmark
    \/ ClearSnapshots
    \/ SetRegressionThreshold

Spec == Init /\ [][Next]_vars

----------------------------------------------------------------------------
(* The caller of testRegressionDetection and testNoRegressionDetection:    *)
(* on a fresh instance, 'form-generation' recorded ScenarioReps times at   *)
(* one duration, a snapshot, ScenarioReps times at another duration, a     *)
(* snapshot, then detectRegressions.                                       *)

ScenarioDurations == {100, 105, 180}

ScenarioInit ==
    /\ Fresh(DefaultMaxMetrics, DefaultMaxSnapshots)
    /\ scenario \in [baseline : ScenarioDurations, later : ScenarioDurations,
                      step : {0}]
    /\ Idle

Advance ==
    /\ scenario' = [scenario EXCEPT !.step = @ + 1]
    /\ UNCHANGED environment

ScenarioRecordBaseline ==
    /\ scenario.step < ScenarioReps
    /\ recordMetric("form-generation", scenario.baseline, "generation", Undefined)
    /\ Advance

ScenarioFirstSnapshot ==
    /\ scenario.step = ScenarioReps
    /\ createSnapshot
    /\ Advance

ScenarioRecordLater ==
    /\ scenario.step > ScenarioReps
    /\ scenario.step <= 2 * ScenarioReps
    /\ recordMetric("form-generation", scenario.later, "generation", Undefined)
    /\ Advance

ScenarioSecondSnapshot ==
    /\ scenario.step = 2 * ScenarioReps + 1
    /\ createSnapshot
    /\ Advance

ScenarioDetect ==
    /\ scenario.step = 2 * ScenarioReps + 2
    /\ detectRegressionsCall
    /\ Advance

ScenarioNext ==
    \/ ScenarioRecordBaseline
    \/ ScenarioFirstSnapshot
    \/ ScenarioRecordLater
    \/ ScenarioSecondSnapshot
    \/ ScenarioDetect

ScenarioSpec == ScenarioInit /\ [][ScenarioNext]_vars

ScenarioDone == scenario.step = 2 * ScenarioReps + 3

----------------------------------------------------------------------------
(* Callers of the measurement helpers.  A call starts, its work runs while *)
(* time passes and other operations are called, and when the work ends the *)
(* helper records and returns or throws.  A measureSync call stays on the  *)
(* stack while its work runs: until it ends, only calls made by the work   *)
(* itself can start, no promise settles, and an outer measureSync call     *)
(* cannot end.                                                             *)

MetadataInputs == {Undefined, Object([cached |-> TRUE, error |-> FALSE])}

\* what the wrapped work does: return a value, or throw one
WorkOutcomes ==
    {[ok |-> TRUE, value |-> "result"], [ok |-> FALSE, value |-> "failure"]}

MeasureInit ==
    /\ Fresh(SmallMaxMetrics, SmallMaxSnapshots)
    /\ scenario = NoScenario
    /\ Idle

IsSync(call) == call.helper = "measureSync"

\* the work of the i-th call in flight may end now
CanEnd(i) ==
    IF IsSync(pending[i])
    THEN \A j \in (i + 1)..Len(pending) : ~IsSync(pending[j])
    ELSE \A j \in 1..Len(pending) : ~IsSync(pending[j])

MeasureSync ==
    /\ nRecords + Len(pending) < MaxMeasured
    /\ \E name \in Names, category \in Categories, metadata \in MetadataInputs :
          measureStart("measureSync", name, category, metadata)
    /\ UNCHANGED <<scenario, now, plan, report, between>>

MeasureAsync ==
    /\ nRecords + Len(pending) < MaxMeasured
    /\ \E name \in Names, category \in Categories, metadata \in MetadataInputs :
          measureStart("measureAsync", name, category, metadata)
    /\ UNCHANGED <<scenario, now, plan, report, between>>

WorkEnds ==
    /\ \E i \in 1..Len(pending), work \in WorkOutcomes :
          CanEnd(i) /\ measureEnd(i, work)
    /\ UNCHANGED <<scenario, now, plan, report, between>>

\* a millisecond passes
Tick ==
    /\ now < MaxClock
    /\ now' = now + 1
    /\ UNCHANGED <<metrics, benchmarks, snapshots, maxMetrics, maxSnapshots,
                   regressionThreshold, returned, recorded, taken, nRecords,
                   created, scenario, pending, plan, report, between>>

\* recordMetric called directly while measurements are in flight
MeasureRecordMetric ==
    /\ nRecords + Len(pending) < MaxMeasured
    /\ recordMetric("custom-op", 600, "generation", Undefined)
    /\ UNCHANGED <<scenario, environment>>

MeasureCreateSnapshot ==
    /\ created < MaxMeasureSnapshots
    /\ createSnapshot
    /\ UNCHANGED <<scenario, environment>>

MeasureNext ==
    \/ MeasureSync
    \/ MeasureAsync
    \/ WorkEnds
    \/ Tick
    \/ MeasureRecordMetric
    \/ MeasureCreateSnapshot
    \/ ClearMetrics

MeasureSpec == MeasureInit /\ [][MeasureNext]_vars

----------------------------------------------------------------------------
(* A caller that registers benchmarks and checks durations against them *)

\* a replacement of a default, and two benchmarks for a name that has none,
\* the second with its warning threshold above its critical threshold
RegistryBenchmarkInputs ==
    BenchmarkInputs \cup
    { Benchmark("custom-op", "interaction", 50, 100, 150),
      Benchmark("custom-op", "interaction", 50, 150, 100) }

\* names checked: two that can be registered and one that never is
CheckNames == Names \cup {"unregistered-op"}

CheckDurations ==
    {-100, 0, 100, 101, 150, 151, 200, 201, 300, 301, 500, 501, 1000000}

RegistryInit ==
    /\ Fresh(SmallMaxMetrics, SmallMaxSnapshots)
    /\ scenario = NoScenario
    /\ Idle

RegistryRegisterBenchmark ==
    /\ \E benchmark \in RegistryBenchmarkInputs : registerBenchmark(benchmark)
    /\ UNCHANGED <<scenario, environment>>

CheckBenchmark ==
    /\ \E metricName \in CheckNames, duration \in CheckDurations :
          checkBenchmarkCall(metricName, duration)
    /\ UNCHANGED <<scenario, environment>>

RegistryNext ==
    \/ RegistryRegisterBenchmark
    \/ CheckBenchmark

RegistrySpec == RegistryInit /\ [][RegistryNext]_vars

----------------------------------------------------------------------------
(* PerformanceReportService (src/src/services/performanceReportService.ts) *)
(* A recommendation is [text, args]: the fixed text of its template and    *)
(* the values interpolated into it.                                        *)

Line(text) == [text |-> text, args |-> <<>>]

LineWith(text, args) == [text |-> text, args |-> args]

\* the distinct categories of a metric list, in order of first occurrence
\* (the key order of the byCategory object)
RECURSIVE CategoriesInOrder(_)
CategoriesInOrder(ms) ==
    IF ms = <<>> THEN <<>>
    ELSE LET front == CategoriesInOrder(SubSeq(ms, 1, Len(ms) - 1))
             c == ms[Len(ms)].category
         IN  IF \E i \in 1..Len(front) : front[i] = c THEN front
             ELSE Append(front, c)

\* byCategory[category]: the metrics pushed under one category
RECURSIVE MetricsOfCategory(_, _)
MetricsOfCategory(ms, category) ==
    IF ms = <<>> THEN <<>>
    ELSE IF Head(ms).category = category
         THEN <<Head(ms)>> \o MetricsOfCategory(Tail(ms), category)
         ELSE MetricsOfCategory(Tail(ms), category)

\* Math.floor in place of Math.ceil
reportPercentileFloor(sorted, p) ==
    LET index == ((p * Len(sorted)) \div 100) - 1
    IN  sorted[Max(0, index) + 1]

\* sorted[Math.max(0, Math.ceil((p / 100) * sorted.length) - 1)]
reportPercentile(sorted, p) ==
    LET index == ((p * Len(sorted) + 99) \div 100) - 1
    IN  sorted[Max(0, index) + 1]

StatsOfCategory(categoryMetrics) ==
    LET categoryDurations == SortedDurations(categoryMetrics)
    IN  [count |-> Len(categoryMetrics),
         average |-> Rat(Sum(categoryDurations), Len(categoryMetrics)),
         min |-> categoryDurations[1],
         max |-> categoryDurations[Len(categoryDurations)],
         p95 |-> reportPercentile(categoryDurations, 95),
         p99 |-> reportPercentile(categoryDurations, 99)]

CategoryStats(ms) ==
    LET categories == CategoriesInOrder(ms)
    IN  [i \in 1..Len(categories) |->
            Entry(categories[i],
                  StatsOfCategory(MetricsOfCategory(ms, categories[i])))]

\* categoryStats[category]?.average > limit
AverageAbove(categoryStats, category, limit) ==
    /\ HasKey(categoryStats, category)
    /\ RatGT(Lookup(categoryStats, category).average, FromInt(limit))

\* (stats.p99 - stats.average) / stats.average > 1, where a division by
\* zero gives Infinity, -Infinity or NaN
VarianceAboveOne(stats) ==
    IF stats.average.num = 0 THEN stats.p99 > 0
    ELSE RatGT(RatDiv(RatSub(FromInt(stats.p99), stats.average),
                      stats.average),
               FromInt(1))

\* the names of all the supplied regressions, whatever their severity
NamesOfAllRegressions(regressions) ==
    [i \in 1..Len(regressions) |-> regressions[i].metricName]

\* regressions.filter(r => r.severity === 'critical').map(r => r.metricName)
RECURSIVE CriticalNames(_)
CriticalNames(regressions) ==
    IF regressions = <<>> THEN <<>>
    ELSE IF Head(regressions).severity = "critical"
         THEN <<Head(regressions).metricName>>
                 \o CriticalNames(Tail(regressions))
         ELSE CriticalNames(Tail(regressions))

RECURSIVE HighVarianceLines(_)
HighVarianceLines(categoryStats) ==
    IF categoryStats = <<>> THEN <<>>
    ELSE (IF VarianceAboveOne(Head(categoryStats).value)
          THEN <<LineWith("High variance in ${category} operations. Investigate outliers and optimize worst-case scenarios.",
                          <<Head(categoryStats).key>>)>>
          ELSE <<>>)
         \o HighVarianceLines(Tail(categoryStats))

\* the reassuring line is added whatever was found
WithDefaultAlways(recommendations) ==
    Append(recommendations, Line("Performance is within acceptable ranges."))

\* if (recommendations.length === 0) recommendations.push(...)
WithDefault(recommendations) ==
    IF Len(recommendations) = 0
    THEN <<Line("Performance is within acceptable ranges.")>>
    ELSE recommendations

generateRecommendations(categoryStats, regressions) ==
    LET render ==
           IF AverageAbove(categoryStats, "render", 500)
           THEN <<Line("Rendering performance is degraded. Consider optimizing component rendering or using virtualization for large lists.")>>
           ELSE <<>>
        generation ==
           IF AverageAbove(categoryStats, "generation", 200)
           THEN <<Line("Form/content generation is slow. Consider caching or lazy loading.")>>
           ELSE <<>>
        update ==
           IF AverageAbove(categoryStats, "update", 300)
           THEN <<Line("UI updates are slow. Consider batching updates or using memoization.")>>
           ELSE <<>>
        criticalRegressions == CriticalNames(regressions)
        critical ==
           IF Len(regressions) > 0 /\ Len(criticalRegressions) > 0
           THEN <<LineWith("Critical performance regressions detected in: ${names}",
                           criticalRegressions)>>
           ELSE <<>>
    IN  WithDefault(render \o generation \o update \o critical
                       \o HighVarianceLines(categoryStats))

\* the recommendations of the empty report left to the rules
createEmptyReportByRules(title) ==
    [timestamp |-> now,
     title |-> title,
     summary |->
        [totalMetrics |-> 0,
         totalDuration |-> 0,
         averageMetricDuration |-> FromInt(0),
         slowestMetric |-> [name |-> "N/A", duration |-> 0],
         fastestMetric |-> [name |-> "N/A", duration |-> 0]],
     byCategory |-> <<>>,
     slowestOperations |-> <<>>,
     regressions |-> <<>>,
     recommendations |-> generateRecommendations(<<>>, <<>>)]

createEmptyReport(title) ==
    [timestamp |-> now,
     title |-> title,
     summary |->
        [totalMetrics |-> 0,
         totalDuration |-> 0,
         averageMetricDuration |-> FromInt(0),
         slowestMetric |-> [name |-> "N/A", duration |-> 0],
         fastestMetric |-> [name |-> "N/A", duration |-> 0]],
     byCategory |-> <<>>,
     slowestOperations |-> <<>>,
     regressions |-> <<>>,
     recommendations |-> <<Line("No metrics recorded")>>]

generateReport(snapshot, regressions, title) ==
    LET ms == snapshot.metrics.items
    IN  IF Len(ms) = 0 THEN createEmptyReport(title)
        ELSE
        LET totalDuration == Sum([i \in 1..Len(ms) |-> ms[i].duration])
            averageDuration == Rat(totalDuration, Len(ms))
            categoryStats == CategoryStats(ms)
            sorted == SortSlowestFirst(ms)
            slowestMetric == sorted[1]
            fastestMetric == sorted[Len(sorted)]
        IN  [timestamp |-> snapshot.timestamp,
             title |-> title,
             summary |->
                [totalMetrics |-> Len(ms),
                 totalDuration |-> totalDuration,
                 averageMetricDuration |-> averageDuration,
                 slowestMetric |-> [name |-> slowestMetric.name,
                                    duration |-> slowestMetric.duration],
                 fastestMetric |-> [name |-> fastestMetric.name,
                                    duration |-> fastestMetric.duration]],
             byCategory |-> categoryStats,
             slowestOperations |->
                [i \in 1..Len(snapshot.slowestOperations) |->
                    LET op == snapshot.slowestOperations[i]
                    IN  [name |-> op.name, duration |-> op.duration,
                         category |-> op.category,
                         timestamp |-> op.timestamp]],
             regressions |-> regressions,
             recommendations |->
                generateRecommendations(categoryStats, regressions)]

----------------------------------------------------------------------------
(* Exporters.  An export is the sequence of its lines, each [text, args]:  *)
(* the template of the line and the values interpolated into it, numbers   *)
(* already formatted.  The HTML document is cut at its line breaks, its    *)
(* <style> block and the table wrappers that carry no data are left out.   *)

\* Number.prototype.toFixed(2): the nearest count of hundredths
toFixed2(x) ==
    LET twice == 200 * x.num
    IN  [hundredths |->
            IF twice >= 0 THEN (twice + x.den) \div (2 * x.den)
            ELSE -((x.den - twice) \div (2 * x.den))]

\* new Date(timestamp).toISOString()
toISOString(timestamp) == [iso |-> timestamp]

\* the section is emitted whether or not the list is empty
SectionAlways(list, lines) == lines

\* if (list.length > 0) { ...lines }
Section(list, lines) == IF Len(list) > 0 THEN lines ELSE <<>>

\* the recommendations moved before the slowest operations
RecommendationsFirst(fixed, slowest, regressions, recommendations) ==
    fixed \o recommendations \o slowest \o regressions

\* the order in which an exporter emits its parts: the title, the summary
\* and the categories, then the three sections that depend on a list
InOrder(fixed, slowest, regressions, recommendations) ==
    fixed \o slowest \o regressions \o recommendations

CategoryCells(entry) ==
    <<entry.key, entry.value.count, toFixed2(entry.value.average),
      toFixed2(FromInt(entry.value.min)), toFixed2(FromInt(entry.value.max)),
      toFixed2(FromInt(entry.value.p95)), toFixed2(FromInt(entry.value.p99))>>

RegressionCells(r) ==
    <<r.metricName, toFixed2(r.previousAverage), toFixed2(r.currentAverage),
      toFixed2(Rat(r.percentageChange.num * 100, r.percentageChange.den)),
      r.severity>>

exportAsCsv(r) ==
    InOrder(
       (<< Line("Performance Report"),
       LineWith("Generated: ${iso}", <<toISOString(r.timestamp)>>),
       Line(""),
       Line("Summary"),
       LineWith("Total Metrics,${n}", <<r.summary.totalMetrics>>),
       LineWith("Total Duration (ms),${ms}",
                <<toFixed2(FromInt(r.summary.totalDuration))>>),
       LineWith("Average Duration (ms),${ms}",
                <<toFixed2(r.summary.averageMetricDuration)>>),
       LineWith("Slowest Operation,${name},${ms}",
                <<r.summary.slowestMetric.name,
                  toFixed2(FromInt(r.summary.slowestMetric.duration))>>),
       LineWith("Fastest Operation,${name},${ms}",
                <<r.summary.fastestMetric.name,
                  toFixed2(FromInt(r.summary.fastestMetric.duration))>>),
       Line(""),
       Line("Performance by Category"),
       Line("Category,Count,Average (ms),Min (ms),Max (ms),P95 (ms),P99 (ms)") >>
    \o [i \in 1..Len(r.byCategory) |->
           LineWith("${category},${count},${avg},${min},${max},${p95},${p99}",
                    CategoryCells(r.byCategory[i]))]
    \o << Line("") >>),
       Section(r.slowestOperations,
          << Line("Slowest Operations"),
             Line("Name,Duration (ms),Category,Timestamp") >>
          \o [i \in 1..Len(r.slowestOperations) |->
                 LET o == r.slowestOperations[i]
                 IN  LineWith("${name},${ms},${category},${iso}",
                              <<o.name, toFixed2(FromInt(o.duration)),
                                o.category, toISOString(o.timestamp)>>)]
          \o << Line("") >>),
       Section(r.regressions,
          << Line("Performance Regressions"),
             Line("Metric,Previous Avg (ms),Current Avg (ms),Change (%),Severity") >>
          \o [i \in 1..Len(r.regressions) |->
                 LineWith("${metric},${previous},${current},${change},${severity}",
                          RegressionCells(r.regressions[i]))]
          \o << Line("") >>),
       Section(r.recommendations,
          << Line("Recommendations") >>
          \o [i \in 1..Len(r.recommendations) |->
                 LineWith("- ${rec}", <<r.recommendations[i]>>)]))

exportAsHtml(r) ==
    InOrder(
       (<< Line("<!DOCTYPE html>"),
       LineWith("<title>${title}</title>", <<r.title>>),
       LineWith("<h1>${title}</h1>", <<r.title>>),
       LineWith("<p class=\"timestamp\">Generated: ${iso}</p>",
                <<toISOString(r.timestamp)>>),
       Line("<h2>Summary</h2>"),
       LineWith("<strong>Total Metrics</strong> ${n}",
                <<r.summary.totalMetrics>>),
       LineWith("<strong>Total Duration</strong> ${ms} ms",
                <<toFixed2(FromInt(r.summary.totalDuration))>>),
       LineWith("<strong>Average Duration</strong> ${ms} ms",
                <<toFixed2(r.summary.averageMetricDuration)>>),
       LineWith("<strong>Slowest Operation</strong> ${name} (${ms} ms)",
                <<r.summary.slowestMetric.name,
                  toFixed2(FromInt(r.summary.slowestMetric.duration))>>),
       Line("<h2>Performance by Category</h2>"),
       Line("<th>Category</th><th>Count</th><th>Average (ms)</th><th>Min (ms)</th><th>Max (ms)</th><th>P95 (ms)</th><th>P99 (ms)</th>") >>
    \o [i \in 1..Len(r.byCategory) |->
           LineWith("<tr><td>${category}</td><td>${count}</td><td>${avg}</td><td>${min}</td><td>${max}</td><td>${p95}</td><td>${p99}</td></tr>",
                    CategoryCells(r.byCategory[i]))]),
       Section(r.slowestOperations,
          << Line("<h2>Slowest Operations</h2>"),
             Line("<th>Name</th><th>Duration (ms)</th><th>Category</th><th>Timestamp</th>") >>
          \o [i \in 1..Len(r.slowestOperations) |->
                 LET o == r.slowestOperations[i]
                 IN  LineWith("<tr><td>${name}</td><td>${ms}</td><td>${category}</td><td>${iso}</td></tr>",
                              <<o.name, toFixed2(FromInt(o.duration)),
                                o.category, toISOString(o.timestamp)>>)]),
       Section(r.regressions,
          << Line("<h2>Performance Regressions</h2>"),
             Line("<th>Metric</th><th>Previous Avg (ms)</th><th>Current Avg (ms)</th><th>Change (%)</th><th>Severity</th>") >>
          \o [i \in 1..Len(r.regressions) |->
                 LineWith("<tr class=\"${class}\"><td>${metric}</td><td>${previous}</td><td>${current}</td><td>${change}</td><td>${severity}</td></tr>",
                          <<IF r.regressions[i].severity = "critical"
                            THEN "regression" ELSE "warning">>
                          \o RegressionCells(r.regressions[i]))]),
       Section(r.recommendations,
          << Line("<h2>Recommendations</h2>") >>
          \o [i \in 1..Len(r.recommendations) |->
                 LineWith("<div class=\"recommendation\">${rec}</div>",
                          <<r.recommendations[i]>>)]))
    \o << Line("</html>") >>

\* the header of the regressions section ends with the two code points of
\* a warning sign, written here as [warning sign]
exportAsMarkdown(r) ==
    InOrder(
       (<< LineWith("# ${title}", <<r.title>>),
       LineWith("**Generated:** ${iso}", <<toISOString(r.timestamp)>>),
       Line(""),
       Line("## Summary"),
       LineWith("- **Total Metrics:** ${n}", <<r.summary.totalMetrics>>),
       LineWith("- **Total Duration:** ${ms} ms",
                <<toFixed2(FromInt(r.summary.totalDuration))>>),
       LineWith("- **Average Duration:** ${ms} ms",
                <<toFixed2(r.summary.averageMetricDuration)>>),
       LineWith("- **Slowest Operation:** ${name} (${ms} ms)",
                <<r.summary.slowestMetric.name,
                  toFixed2(FromInt(r.summary.slowestMetric.duration))>>),
       LineWith("- **Fastest Operation:** ${name} (${ms} ms)",
                <<r.summary.fastestMetric.name,
                  toFixed2(FromInt(r.summary.fastestMetric.duration))>>),
       Line(""),
       Line("## Performance by Category"),
       Line("| Category | Count | Average (ms) | Min (ms) | Max (ms) | P95 (ms) | P99 (ms) |"),
       Line("|----------|-------|--------------|----------|----------|----------|----------|") >>
    \o [i \in 1..Len(r.byCategory) |->
           LineWith("| ${category} | ${count} | ${avg} | ${min} | ${max} | ${p95} | ${p99} |",
                    CategoryCells(r.byCategory[i]))]
    \o << Line("") >>),
       Section(r.slowestOperations,
          << Line("## Slowest Operations"),
             Line("| Name | Duration (ms) | Category |"),
             Line("|------|---------------|----------|") >>
          \o [i \in 1..Len(SliceFirst(r.slowestOperations, 10)) |->
                 LET o == r.slowestOperations[i]
                 IN  LineWith("| ${name} | ${ms} | ${category} |",
                              <<o.name, toFixed2(FromInt(o.duration)),
                                o.category>>)]
          \o << Line("") >>),
       Section(r.regressions,
          << Line("## Performance Regressions [warning sign]"),
             Line("| Metric | Previous (ms) | Current (ms) | Change (%) | Severity |"),
             Line("|--------|---------------|--------------|------------|----------|") >>
          \o [i \in 1..Len(r.regressions) |->
                 LineWith("| ${metric} | ${previous} | ${current} | ${change} | ${severity} |",
                          RegressionCells(r.regressions[i]))]
          \o << Line("") >>),
       Section(r.recommendations,
          << Line("## Recommendations") >>
          \o [i \in 1..Len(r.recommendations) |->
                 LineWith("- ${rec}", <<r.recommendations[i]>>)]
          \o << Line("") >>))

----------------------------------------------------------------------------
(* The caller of the report tests: on a fresh instance it records a planned *)
(* list of metrics, takes a snapshot, and hands it to the report service.  *)

\* what the caller records: a name, a duration and a category
Planned(n, d, c) == [name |-> n, duration |-> d, category |-> c]

PlanMetrics ==
    { Planned("sidebar-render-initial", 600, "render"),
      Planned("form-generation", 100, "generation"),
      Planned("custom-op", 600, "generation"),
      Planned("simulation-panel-update", 400, "update"),
      Planned("ui-interaction-response", 0, "interaction") }

\* how many times in a row one metric is recorded
BlockCounts == {1, MaxBlock - 1, MaxBlock}

\* for (let i = 0; i < k; i++) monitor.recordMetric(...)
Repeat(m, k) == [i \in 1..k |-> m]

\* nothing, a run of one metric, such a run followed by one more metric,
\* or a long run followed by two more metrics
MetricPlans ==
    {<<>>}
    \cup {Repeat(m, k) : m \in PlanMetrics, k \in BlockCounts}
    \cup {Append(Repeat(b[1], b[2]), b[3]) :
             b \in PlanMetrics \X BlockCounts \X PlanMetrics}
    \cup {Repeat(b[1], MaxBlock - 1) \o <<b[2], b[3]>> :
             b \in PlanMetrics \X PlanMetrics \X PlanMetrics}

\* what the caller may record after it has taken the snapshot
LaterPlans == {<<Planned("sidebar-render-initial", 600, "render")>>}

Alert(n, p, c, change, severity) ==
    [metricName |-> n, previousAverage |-> p, currentAverage |-> c,
     percentageChange |-> change, severity |-> severity]

\* the regression lists of testReportWithRegressions, and none
RegressionInputs ==
    { <<>>,
      << Alert("sidebar-render-initial", FromInt(400), FromInt(600),
               Rat(1, 2), "warning"),
         Alert("form-generation", FromInt(100), FromInt(250),
               Rat(3, 2), "critical") >> }

Titles == {"Test Performance Report"}

ReportInit ==
    /\ Fresh(DefaultMaxMetrics, DefaultMaxSnapshots)
    /\ scenario = NoScenario
    /\ now = 0
    /\ pending = <<>>
    /\ plan \in [todo : MetricPlans, later : LaterPlans,
                  regressions : RegressionInputs, title : Titles]
    /\ report = Null
    /\ between = NoSnapshotYet

PlanRecordMetric ==
    /\ plan.todo # <<>>
    /\ LET next == Head(plan.todo)
       IN  recordMetric(next.name, next.duration, next.category, Undefined)
    /\ plan' = [plan EXCEPT !.todo = Tail(@)]
    /\ UNCHANGED <<scenario, now, pending, report, between>>

PlanCreateSnapshot ==
    /\ plan.todo = <<>>
    /\ snapshots = <<>>
    /\ createSnapshot
    /\ UNCHANGED <<scenario, environment>>

\* time passes once the metrics are recorded
PlanTick == plan.todo = <<>> /\ Tick

\* the snapshot the caller holds: the object createSnapshot returned
HeldSnapshot == snapshots[1]

PlanRecordLater ==
    /\ snapshots # <<>>
    /\ plan.later # <<>>
    /\ LET next == Head(plan.later)
       IN  recordMetric(next.name, next.duration, next.category, Undefined)
    /\ plan' = [plan EXCEPT !.later = Tail(@)]
    /\ UNCHANGED <<scenario, now, pending, report, between>>

PlanClearMetrics ==
    /\ snapshots # <<>>
    /\ clearMetrics
    /\ UNCHANGED <<scenario, environment>>

\* the caller keeps its first generateReport call: arguments and report
GenerateReport ==
    /\ snapshots # <<>>
    /\ returned' = [op |-> "generateReport",
                    snapshot |-> HeldSnapshot,
                    regressions |-> plan.regressions,
                    title |-> plan.title,
                    value |-> generateReport(HeldSnapshot, plan.regressions,
                                             plan.title)]
    /\ report' = IF report = Null THEN returned' ELSE report
    /\ UNCHANGED <<metrics, benchmarks, snapshots, maxMetrics, maxSnapshots,
                   regressionThreshold, recorded, taken, nRecords, created,
                   scenario, now, pending, plan, between>>

ReportNext ==
    \/ PlanRecordMetric
    \/ PlanCreateSnapshot
    \/ PlanTick
    \/ PlanRecordLater
    \/ PlanClearMetrics
    \/ GenerateReport

ReportSpec == ReportInit /\ [][ReportNext]_vars

----------------------------------------------------------------------------
(* The caller of the export tests: it generates a report as above and      *)
(* exports it, as generated or with some of its lists emptied first.       *)

ExportPlans ==
    { <<>>,
      <<Planned("form-generation", 100, "generation")>>,
      <<Planned("sidebar-render-initial", 600, "render"),
        Planned("form-generation", 100, "generation")>> }

\* the default title of generateReport, and the title of the tests
ExportTitles == {"Performance Report", "Test Performance Report"}

ListFields == {"slowestOperations", "regressions", "recommendations"}

\* { ...report, [field]: [] } for each of the fields
Emptied(r, fields) ==
    [r EXCEPT
        !.slowestOperations =
            IF "slowestOperations" \in fields THEN <<>> ELSE @,
        !.regressions = IF "regressions" \in fields THEN <<>> ELSE @,
        !.recommendations = IF "recommendations" \in fields THEN <<>> ELSE @]

ExportInit ==
    /\ Fresh(DefaultMaxMetrics, DefaultMaxSnapshots)
    /\ scenario = NoScenario
    /\ now = 0
    /\ pending = <<>>
    /\ plan \in [todo : ExportPlans, later : LaterPlans,
                  regressions : RegressionInputs, title : ExportTitles]
    /\ report = Null
    /\ between = NoSnapshotYet

\* an exporter returns text for the report r
Exported(exporter, r, text) ==
    /\ returned' = [op |-> exporter, report |-> r, value |-> text]
    /\ UNCHANGED <<metrics, benchmarks, snapshots, maxMetrics, maxSnapshots,
                   regressionThreshold, recorded, taken, nRecords, created,
                   scenario, now, pending, plan, report, between>>

ExportAsCsv ==
    /\ report # Null
    /\ \E fields \in SUBSET ListFields :
          LET r == Emptied(report.value, fields)
          IN  Exported("exportAsCsv", r, exportAsCsv(r))

ExportAsHtml ==
    /\ report # Null
    /\ \E fields \in SUBSET ListFields :
          LET r == Emptied(report.value, fields)
          IN  Exported("exportAsHtml", r, exportAsHtml(r))

ExportAsMarkdown ==
    /\ report # Null
    /\ \E fields \in SUBSET ListFields :
          LET r == Emptied(report.value, fields)
          IN  Exported("exportAsMarkdown", r, exportAsMarkdown(r))

ExportNext ==
    \/ PlanRecordMetric
    \/ PlanCreateSnapshot
    \/ GenerateReport
    \/ ExportAsCsv
    \/ ExportAsHtml
    \/ ExportAsMarkdown

ExportSpec == ExportInit /\ [][ExportNext]_vars

----------------------------------------------------------------------------
(* A caller that asks: it records, clears, snapshots and registers on a    *)
(* small instance and, in between, calls everything that only answers,     *)
(* and has the latest snapshot reported and exported.                      *)

QueryMetrics ==
    { Planned("form-generation", 100, "generation"),
      Planned("sidebar-render-initial", 600, "render") }

QueryNames == {"form-generation", "sidebar-render-initial", "unregistered-op"}

QueryCategories == {"generation", "render", "update"}

QueryInit ==
    /\ Fresh(SmallMaxMetrics, SmallMaxSnapshots)
    /\ scenario = NoScenario
    /\ Idle

QueryRecordMetric ==
    /\ nRecords < MaxRecords
    /\ \E m \in QueryMetrics :
          recordMetric(m.name, m.duration, m.category, Undefined)
    /\ UNCHANGED <<scenario, environment>>

QueryCreateSnapshot ==
    /\ created < MaxQuerySnapshots
    /\ createSnapshot
    /\ UNCHANGED <<scenario, environment>>

GetMetricsForName ==
    /\ \E name \in QueryNames : getMetricsForNameCall(name)
    /\ UNCHANGED <<scenario, environment>>

GetMetricsForCategory ==
    /\ \E category \in QueryCategories : getMetricsForCategoryCall(category)
    /\ UNCHANGED <<scenario, environment>>

CalculateStats ==
    /\ \E metricName \in QueryNames : calculateStatsCall(metricName)
    /\ UNCHANGED <<scenario, environment>>

GetBenchmark ==
    /\ \E metricName \in QueryNames : getBenchmarkCall(metricName)
    /\ UNCHANGED <<scenario, environment>>

QueryCheckBenchmark ==
    /\ \E metricName \in QueryNames, m \in QueryMetrics :
          checkBenchmarkCall(metricName, m.duration)
    /\ UNCHANGED <<scenario, environment>>

GetSnapshots == getSnapshotsCall /\ UNCHANGED <<scenario, environment>>

\* reportService.generateReport(snapshot, monitor.detectRegressions())
\* for the newest snapshot, under the default title
QueryGenerateReport ==
    /\ snapshots # <<>>
    /\ LET snapshot == snapshots[Len(snapshots)]
           regressions == detectRegressions(snapshots, benchmarks,
                                            regressionThreshold)
       IN  returned' = [op |-> "generateReport",
                        snapshot |-> snapshot,
                        regressions |-> regressions,
                        title |-> "Performance Report",
                        value |-> generateReport(snapshot, regressions,
                                                 "Performance Report")]
    /\ UNCHANGED <<metrics, benchmarks, snapshots, maxMetrics, maxSnapshots,
                   regressionThreshold, recorded, taken, nRecords, created,
                   scenario, environment>>

\* the report generateReport has just returned goes to an exporter
QueryExportAsCsv ==
    /\ returned.op = "generateReport"
    /\ Exported("exportAsCsv", returned.value, exportAsCsv(returned.value))

QueryExportAsHtml ==
    /\ returned.op = "generateReport"
    /\ Exported("exportAsHtml", returned.value, exportAsHtml(returned.value))

QueryExportAsMarkdown ==
    /\ returned.op = "generateReport"
    /\ Exported("exportAsMarkdown", returned.value,
                exportAsMarkdown(returned.value))

QueryNext ==
    \/ QueryRecordMetric
    \/ ClearMetrics
    \/ QueryCreateSnapshot
    \/ RegisterBenchmark
    \/ DetectRegressions
    \/ GetMetricsForName
    \/ GetMetricsForCategory
    \/ CalculateStats
    \/ GetBenchmark
    \/ QueryCheckBenchmark
    \/ GetSnapshots
    \/ QueryGenerateReport
    \/ QueryExportAsCsv
    \/ QueryExportAsHtml
    \/ QueryExportAsMarkdown

QuerySpec == QueryInit /\ [][QueryNext]_vars

----------------------------------------------------------------------------
(* A caller that compares consecutive snapshots: it keeps the snapshots    *)
(* its last two createSnapshot calls returned, and notes whether, from one *)
(* call to the next, clearMetrics was called or a push made the store      *)
(* longer than maxMetrics.                                                 *)

WatchRecordMetric ==
    /\ nRecords < MaxRecords
    /\ \E name \in Names, duration \in Durations, category \in Categories :
          recordMetric(name, duration, category, Undefined)
    /\ between' = [between EXCEPT
                      !.overflowed = @ \/ Len(metrics) + 1 > maxMetrics]
    /\ UNCHANGED <<scenario, now, pending, plan, report>>

WatchClearMetrics ==
    /\ clearMetrics
    /\ between' = [between EXCEPT !.cleared = TRUE]
    /\ UNCHANGED <<scenario, now, pending, plan, report>>

WatchCreateSnapshot ==
    /\ created < MaxSnapshotCalls
    /\ createSnapshot
    /\ between' = [previous |-> between.last,
                   last |-> returned'.value,
                   undisturbed |-> ~between.cleared /\ ~between.overflowed,
                   cleared |-> FALSE,
                   overflowed |-> FALSE]
    /\ UNCHANGED <<scenario, now, pending, plan, report>>

WatchNext ==
    \/ WatchRecordMetric
    \/ WatchClearMetrics
    \/ WatchCreateSnapshot
    \/ ClearSnapshots

WatchSpec == Init /\ [][WatchNext]_vars

----------------------------------------------------------------------------
(* Callers of measureAsync whose calls overlap.  A call starts; at some    *)
(* time, or never, the promise it awaits settles, which queues the rest of *)
(* the call as a job; the job queue is emptied in order.  Between any two  *)
(* of these steps time may pass and recordMetric, createSnapshot and       *)
(* clearMetrics may be called.                                             *)

OverlapMeasureAsync ==
    /\ nRecords + Len(pending) < MaxOverlap
    /\ \E name \in Names :
          measureStart("measureAsync", name, "generation", Undefined)
    /\ UNCHANGED <<scenario, now, plan, report, between>>

WorkSettles ==
    /\ \E i \in 1..Len(pending), work \in WorkOutcomes : workSettles(i, work)
    /\ UNCHANGED <<scenario, now, plan, report, between>>

Resume ==
    /\ \E i \in 1..Len(pending) : resume(i)
    /\ UNCHANGED <<scenario, now, plan, report, between>>

OverlapRecordMetric ==
    /\ nRecords + Len(pending) < MaxRecords
    /\ recordMetric("custom-op", 600, "generation", Undefined)
    /\ UNCHANGED <<scenario, environment>>

OverlapNext ==
    \/ OverlapMeasureAsync
    \/ WorkSettles
    \/ Resume
    \/ Tick
    \/ OverlapRecordMetric
    \/ MeasureCreateSnapshot
    \/ ClearMetrics

OverlapSpec == MeasureInit /\ [][OverlapNext]_vars

\* the event loop runs the queued jobs: a settled call does not wait forever
FairOverlapSpec == OverlapSpec /\ WF_vars(Resume)

----------------------------------------------------------------------------
(* Properties *)

ReturnedFrom(op) == returned.op = op

\* the alerts a detectRegressions call has just returned
Alerts == returned.value

AlertNames == {Alerts[i].metricName : i \in 1..Len(Alerts)}

\* the averages of the newest and of the second-newest retained snapshot
CurrentAverages == snapshots[Len(snapshots)].averages

PreviousAverages == snapshots[Len(snapshots) - 1].averages

\* C1: the metric store holds exactly the last min(k, maxMetrics) of the k
\* metrics recorded since the last clearMetrics, in recording order, and
\* never more than maxMetrics of them.
C1_StoreHoldsMostRecent ==
    LET k == Len(recorded)
        n == IF k <= maxMetrics THEN k ELSE maxMetrics
    IN  /\ Len(metrics) = n
        /\ Len(metrics) <= maxMetrics
        /\ \A i \in 1..n : metrics[i] = recorded[k - n + i]

\* a recordMetric call has returned after discarding the oldest entry, and
\* the entry discarded differs from the newest one
C1_Witness ==
    /\ ReturnedFrom("recordMetric")
    /\ Len(recorded) > maxMetrics
    /\ recorded[1] # recorded[Len(recorded)]

\* C2: for every name with a retained observation, calculateStats gives
\* min <= p50 <= p95 <= p99 <= max and counts the retained metrics of
\* exactly that name.
C2_StatsOrdered ==
    \A name \in Names :
        (\E i \in 1..Len(metrics) : metrics[i].name = name) =>
            LET stats == calculateStats(metrics, name)
            IN  /\ stats # Null
                /\ stats.min <= stats.p50
                /\ stats.p50 <= stats.p95
                /\ stats.p95 <= stats.p99
                /\ stats.p99 <= stats.max
                /\ stats.count =
                      Cardinality({i \in 1..Len(metrics) : metrics[i].name = name})

\* a name retained twice, the slower observation first, next to another
\* name or not
C2_Witness ==
    /\ Len(metrics) >= 2
    /\ metrics[1].name = metrics[2].name
    /\ metrics[1].duration > metrics[2].duration

ScenarioIs(baseline, later) ==
    /\ ScenarioDone
    /\ scenario.baseline = baseline
    /\ scenario.later = later

InBothSnapshots(name) ==
    /\ Len(snapshots) >= 2
    /\ HasKey(CurrentAverages, name)
    /\ HasKey(PreviousAverages, name)

NotIncreased(name) ==
    ~RatGT(Lookup(CurrentAverages, name), Lookup(PreviousAverages, name))

\* C4 as stated: whatever the durations and the threshold, no alert is
\* returned for a metric whose newest average is less than or equal to
\* its average in the second-newest snapshot.
C4_NoAlertUnlessIncreased ==
    ReturnedFrom("detectRegressions") =>
        \A name \in Names :
            (InBothSnapshots(name) /\ NotIncreased(name)) => name \notin AlertNames

\* C4 amended: the same, for a regression threshold that is not negative
\* and a previous average that is not negative.
C4_NoAlertUnlessIncreasedNonNegative ==
    (ReturnedFrom("detectRegressions") /\ regressionThreshold.num >= 0) =>
        \A name \in Names :
            (/\ InBothSnapshots(name)
             /\ Lookup(PreviousAverages, name).num >= 0
             /\ NotIncreased(name)) => name \notin AlertNames

\* detectRegressions has returned under a non-negative threshold, with a
\* metric whose positive average has gone down
C4_Witness ==
    /\ ReturnedFrom("detectRegressions")
    /\ regressionThreshold.num >= 0
    /\ \E name \in Names :
          /\ InBothSnapshots(name)
          /\ Lookup(PreviousAverages, name).num > 0
          /\ RatGT(Lookup(PreviousAverages, name), Lookup(CurrentAverages, name))

\* (current - previous) / previous of the two newest snapshots
ChangeOf(name) ==
    RatDiv(RatSub(Lookup(CurrentAverages, name), Lookup(PreviousAverages, name)),
           Lookup(PreviousAverages, name))

\* C5: a metric with a non-zero previous average and a current average is
\* reported if and only if (current - previous) / previous is strictly
\* greater than the configured threshold, and every alert carries the two
\* averages and that quotient.
C5_AlertIffAboveThreshold ==
    ReturnedFrom("detectRegressions") =>
        /\ \A name \in Names :
              (InBothSnapshots(name) /\ Lookup(PreviousAverages, name).num # 0) =>
                 (name \in AlertNames <=> RatGT(ChangeOf(name), regressionThreshold))
        /\ \A i \in 1..Len(Alerts) :
              LET name == Alerts[i].metricName
              IN  /\ InBothSnapshots(name)
                  /\ Alerts[i].previousAverage = Lookup(PreviousAverages, name)
                  /\ Alerts[i].currentAverage = Lookup(CurrentAverages, name)
                  /\ Alerts[i].percentageChange = ChangeOf(name)

\* detectRegressions has returned an alert for one metric and none for
\* another, both with a non-zero previous average and a current average
C5_Witness ==
    /\ ReturnedFrom("detectRegressions")
    /\ \E name, other \in Names :
          /\ InBothSnapshots(name)
          /\ Lookup(PreviousAverages, name).num # 0
          /\ name \in AlertNames
          /\ InBothSnapshots(other)
          /\ Lookup(PreviousAverages, other).num # 0
          /\ other \notin AlertNames

\* C6: with fewer than two snapshots retained, detectRegressions returns
\* the empty list.
C6_NoAlertsBelowTwoSnapshots ==
    (ReturnedFrom("detectRegressions") /\ Len(snapshots) < 2) => Alerts = <<>>

\* detectRegressions has returned with one snapshot retained, taken of a
\* non-empty store after a clearSnapshots
C6_Witness ==
    /\ ReturnedFrom("detectRegressions")
    /\ Len(snapshots) = 1
    /\ created >= 2
    /\ snapshots[1].averages # <<>>

\* what a snapshot holds
Contents(snapshot) ==
    [metrics |-> snapshot.metrics.items,
     averages |-> snapshot.averages,
     percentiles |-> snapshot.percentiles,
     slowestOperations |-> snapshot.slowestOperations]

\* the number, in order of creation, of the i-th retained snapshot
Ordinal(i) == created - Len(snapshots) + i

\* C7: a snapshot that stays in the history keeps its metrics list,
\* averages, percentiles and slowestOperations across every step.
C7_RetainedSnapshotsUnchanged ==
    [][\A i \in 1..Len(snapshots) : \A j \in 1..Len(snapshots') :
          (Ordinal(i) = (created' - Len(snapshots') + j)) =>
              Contents(snapshots'[j]) = Contents(snapshots[i])]_vars

\* a recordMetric call that discarded an entry has returned while a
\* snapshot of the earlier store is retained
C7_Witness ==
    /\ ReturnedFrom("recordMetric")
    /\ Len(recorded) > maxMetrics
    /\ Len(snapshots) >= 1
    /\ snapshots[Len(snapshots)].metrics.items # <<>>
    /\ snapshots[Len(snapshots)].metrics.items # metrics

\* C8: the history is exactly the last min(k, maxSnapshots) of the k
\* snapshots created since the last clearSnapshots, in creation order, so
\* the two snapshots detectRegressions compares are the two created last.
C8_HistoryHoldsMostRecent ==
    LET k == Len(taken)
        n == IF k <= maxSnapshots THEN k ELSE maxSnapshots
    IN  /\ Len(snapshots) = n
        /\ \A i \in 1..n : Contents(snapshots[i]) = Contents(taken[k - n + i])
        /\ (ReturnedFrom("detectRegressions") /\ k >= 2) =>
              Alerts = AlertsFrom(1, taken[k].averages, taken[k - 1].averages,
                                  benchmarks, regressionThreshold)

\* detectRegressions has returned an alert after the oldest snapshot was
\* evicted, and the evicted snapshot differs from the one compared against
C8_Witness ==
    /\ ReturnedFrom("detectRegressions")
    /\ Len(taken) > maxSnapshots
    /\ Alerts # <<>>
    /\ taken[1].averages # taken[Len(taken) - 1].averages

\* C9: a metric with an average in the newest snapshot and none in the
\* second-newest is never reported.
C9_NewMetricNeverReported ==
    (ReturnedFrom("detectRegressions") /\ Len(snapshots) >= 2) =>
        \A name \in Names :
            (HasKey(CurrentAverages, name) /\ ~HasKey(PreviousAverages, name)) =>
                name \notin AlertNames

\* detectRegressions has returned with a metric that is new in the newest
\* snapshot, at the largest average, under the lowest threshold
C9_Witness ==
    /\ ReturnedFrom("detectRegressions")
    /\ Len(snapshots) >= 2
    /\ \A t \in Thresholds : ~RatGT(regressionThreshold, t)
    /\ \E name \in Names :
          /\ HasKey(CurrentAverages, name)
          /\ ~HasKey(PreviousAverages, name)
          /\ \A d \in Durations : ~RatGT(FromInt(d), Lookup(CurrentAverages, name))

\* C10: an alert is 'critical' exactly when a benchmark is registered for
\* its metric and the current average is strictly greater than that
\* benchmark's criticalThresholdMs; otherwise it is 'warning'.
C10_SeverityByCriticalThreshold ==
    ReturnedFrom("detectRegressions") =>
        \A i \in 1..Len(Alerts) :
            LET name == Alerts[i].metricName
                critical ==
                    /\ name \in DOMAIN benchmarks
                    /\ Alerts[i].currentAverage.num >
                          benchmarks[name].criticalThresholdMs
                             * Alerts[i].currentAverage.den
            IN  /\ critical => Alerts[i].severity = "critical"
                /\ ~critical => Alerts[i].severity = "warning"

\* detectRegressions has returned a critical alert for a metric with a
\* benchmark and a warning for a metric without one
C10_Witness ==
    /\ ReturnedFrom("detectRegressions")
    /\ \E i, j \in 1..Len(Alerts) :
          /\ Alerts[i].severity = "critical"
          /\ Alerts[i].metricName \in DOMAIN benchmarks
          /\ Alerts[j].severity = "warning"
          /\ Alerts[j].metricName \notin DOMAIN benchmarks

\* C11: when the work of a measureSync or measureAsync call ends, the helper
\* records exactly one metric, with the name and category the call was given.
\* If the work succeeded, the helper returns the work's result and the
\* recorded metadata is the metadata supplied; if the work failed, the
\* recorded metadata has error = true and the helper throws the work's
\* failure, the record being already made.
C11_MeasureRecordsExactlyOnce ==
    [][Len(pending') < Len(pending) =>
          \E i \in 1..Len(pending) :
             LET call == pending[i]
                 m == recorded'[Len(recorded')]
             IN  /\ pending' = SubSeq(pending, 1, i - 1)
                                   \o SubSeq(pending, i + 1, Len(pending))
                 /\ nRecords' = nRecords + 1
                 /\ recorded' = Append(recorded, m)
                 /\ metrics'[Len(metrics')] = m
                 /\ m.name = call.name
                 /\ m.category = call.category
                 /\ returned'.op = call.helper
                 /\ returned'.value = returned'.work.value
                 /\ IF returned'.work.ok
                    THEN /\ returned'.outcome = "return"
                         /\ m.metadata = call.metadata
                    ELSE /\ returned'.outcome = "throw"
                         /\ m.metadata.defined
                         /\ m.metadata.properties.error = TRUE]_vars

\* a measureAsync call given metadata has just thrown its work's failure,
\* and a metric without metadata was recorded before its metric
C11_Witness ==
    /\ returned.op = "measureAsync"
    /\ returned.outcome = "throw"
    /\ Len(recorded) = 2
    /\ recorded[1].metadata = Undefined
    /\ recorded[2].metadata = Object([cached |-> TRUE, error |-> TRUE])
    /\ recorded[2].duration > 0

\* the status the thresholds of a benchmark give a duration
StatusUnder(benchmark, duration) ==
    IF duration > benchmark.criticalThresholdMs THEN "critical"
    ELSE IF duration > benchmark.warningThresholdMs THEN "warning"
    ELSE "ok"

\* C12: the registry entry of a name changes only when registerBenchmark is
\* called with a benchmark of that name, and is then that benchmark; and
\* checkBenchmark on a registered name answers from that entry: 'critical'
\* if the duration is strictly above criticalThresholdMs, otherwise 'warning'
\* if it is strictly above warningThresholdMs, otherwise 'ok', with passed
\* true exactly when the status is 'ok'.
C12_CheckAgainstLatestBenchmark ==
    [][/\ \A n \in DOMAIN benchmarks' :
             (n \notin DOMAIN benchmarks \/ benchmarks'[n] # benchmarks[n]) =>
                /\ returned'.op = "registerBenchmark"
                /\ returned'.benchmark.name = n
       /\ returned'.op = "registerBenchmark" =>
             /\ returned'.benchmark.name \in DOMAIN benchmarks'
             /\ benchmarks'[returned'.benchmark.name] = returned'.benchmark
       /\ (/\ returned'.op = "checkBenchmark"
           /\ returned'.metricName \in DOMAIN benchmarks') =>
             LET latest == benchmarks'[returned'.metricName]
                 result == returned'.value
             IN  /\ result.benchmark = latest
                 /\ result.status = StatusUnder(latest, returned'.duration)
                 /\ result.passed <=> result.status = "ok"]_vars

\* checkBenchmark has answered 'warning' for a duration equal to the critical
\* threshold of a benchmark that replaced a default
C12_Witness ==
    /\ returned.op = "checkBenchmark"
    /\ returned.metricName = "form-generation"
    /\ benchmarks["form-generation"] # initializeDefaultBenchmarks["form-generation"]
    /\ returned.duration = benchmarks["form-generation"].criticalThresholdMs
    /\ returned.value.status = "warning"
    /\ ~returned.value.passed

\* C13: for a name without a registered benchmark checkBenchmark returns
\* passed = true and status = 'ok', whatever the duration and whatever else
\* the registry holds.
C13_UnregisteredNameAlwaysPasses ==
    (/\ returned.op = "checkBenchmark"
     /\ returned.metricName \notin DOMAIN benchmarks) =>
        /\ returned.value.passed
        /\ returned.value.status = "ok"

\* a very large duration was checked for a name without a benchmark, in a
\* registry that holds more than the defaults
C13_Witness ==
    /\ returned.op = "checkBenchmark"
    /\ returned.metricName \notin DOMAIN benchmarks
    /\ returned.duration = 1000000
    /\ "custom-op" \in DOMAIN benchmarks

\* the place of the i-th metric of ms when ms is ordered by duration
\* descending, metrics of equal duration in the order of ms
Rank(ms, i) ==
    1 + Cardinality({j \in 1..Len(ms) :
                        \/ ms[j].duration > ms[i].duration
                        \/ ms[j].duration = ms[i].duration /\ j < i})

\* C14: the slowestOperations of a snapshot just created from n metrics are
\* the metrics ranked 1 to min(10, n) by duration descending, equal
\* durations in recording order; every metric left out is no slower than the
\* last one included.
C14_SlowestAreTopTenStable ==
    ReturnedFrom("createSnapshot") =>
       LET ms == returned.value.metrics.items
           slowest == returned.value.slowestOperations
           kept == IF Len(ms) < 10 THEN Len(ms) ELSE 10
       IN  /\ Len(slowest) = kept
           /\ \A i \in 1..Len(ms) :
                 IF Rank(ms, i) <= kept
                 THEN slowest[Rank(ms, i)] = ms[i]
                 ELSE ms[i].duration <= slowest[kept].duration

\* a snapshot of more than ten metrics, where a metric as slow as the
\* slowest is left out because it was recorded after ten others
C14_Witness ==
    /\ ReturnedFrom("createSnapshot")
    /\ Len(returned.value.metrics.items) > 10
    /\ \E i \in 1..Len(returned.value.metrics.items) :
          /\ returned.value.metrics.items[i].duration =
                returned.value.slowestOperations[1].duration
          /\ \A k \in 1..Len(returned.value.slowestOperations) :
                returned.value.slowestOperations[k].name #
                   returned.value.metrics.items[i].name

\* the snapshot handed to the generateReport call that has just returned
\* holds no metrics
ReportOfEmptySnapshot ==
    /\ ReturnedFrom("generateReport")
    /\ Len(returned.snapshot.metrics.items) = 0

ReportOfNonEmptySnapshot ==
    /\ ReturnedFrom("generateReport")
    /\ Len(returned.snapshot.metrics.items) > 0

\* C15: the report generated from a snapshot without metrics has
\* totalMetrics, totalDuration and averageMetricDuration 0, slowest and
\* fastest metric 'N/A' with duration 0, and the single recommendation
\* 'No metrics recorded'.
C15_EmptySnapshotGivesEmptyReport ==
    ReportOfEmptySnapshot =>
       /\ returned.value.summary.totalMetrics = 0
       /\ returned.value.summary.totalDuration = 0
       /\ returned.value.summary.averageMetricDuration = [num |-> 0, den |-> 1]
       /\ returned.value.summary.slowestMetric = [name |-> "N/A", duration |-> 0]
       /\ returned.value.summary.fastestMetric = [name |-> "N/A", duration |-> 0]
       /\ returned.value.recommendations =
             <<[text |-> "No metrics recorded", args |-> <<>>]>>

\* a report was generated from an empty snapshot after a metric had been
\* recorded into the store, with a list of regressions supplied
C15_Witness ==
    /\ ReportOfEmptySnapshot
    /\ metrics # <<>>
    /\ returned.regressions # <<>>

\* C16: the regressions field of a generated report is the list of
\* regressions that was passed to generateReport, whatever the snapshot.
C16_RegressionsAreTheSuppliedList ==
    ReturnedFrom("generateReport") =>
       returned.value.regressions = returned.regressions

\* C17: a generateReport call given the snapshot, the regressions and the
\* title of an earlier call returns a report equal to the earlier one in
\* every field, whatever time has passed and whatever was recorded or
\* cleared in between.
C17_SameArgumentsSameReport ==
    (/\ ReturnedFrom("generateReport")
     /\ returned.snapshot = report.snapshot
     /\ returned.regressions = report.regressions
     /\ returned.title = report.title) =>
        returned.value = report.value

\* the average of the category is above limit
CategoryAverageAbove(entry, category, limit) ==
    /\ entry.key = category
    /\ entry.value.average.num > limit * entry.value.average.den

\* (p99 - average) / average > 1, by the sign of the average
CategoryVarianceHigh(stats) ==
    LET excess == stats.p99 * stats.average.den - stats.average.num
    IN  \/ stats.average.num > 0 /\ excess > stats.average.num
        \/ stats.average.num = 0 /\ stats.p99 > 0
        \/ stats.average.num < 0 /\ excess < stats.average.num

\* one of the recommendation rules applies to the report just returned
RuleFired ==
    \/ \E i \in 1..Len(returned.value.byCategory) :
          LET entry == returned.value.byCategory[i]
          IN  \/ CategoryAverageAbove(entry, "render", 500)
              \/ CategoryAverageAbove(entry, "generation", 200)
              \/ CategoryAverageAbove(entry, "update", 300)
              \/ CategoryVarianceHigh(entry.value)
    \/ \E j \in 1..Len(returned.regressions) :
          returned.regressions[j].severity = "critical"

Reassuring ==
    [text |-> "Performance is within acceptable ranges.", args |-> <<>>]

\* C19: every generated report has at least one recommendation; for a
\* snapshot with metrics, 'Performance is within acceptable ranges.' is in
\* the list exactly when no recommendation rule applies, and is then the
\* whole list.
C19_ReassuringIffNoRuleFired ==
    ReturnedFrom("generateReport") =>
       LET recommendations == returned.value.recommendations
           reassures == \E i \in 1..Len(recommendations) :
                           recommendations[i] = Reassuring
       IN  /\ Len(recommendations) > 0
           /\ ReportOfNonEmptySnapshot =>
                 /\ reassures <=> ~RuleFired
                 /\ reassures => recommendations = <<Reassuring>>

\* a report on two categories, one of them with average 0, has nothing but
\* the reassuring line
C19_Witness ==
    /\ ReportOfNonEmptySnapshot
    /\ returned.value.recommendations = <<Reassuring>>
    /\ Len(returned.value.byCategory) = 2
    /\ \E i \in 1..2 : returned.value.byCategory[i].value.average.num = 0

\* C20 as stated: in every category of a report generated from a snapshot
\* with metrics, p95 is at least the average.
C20_P95AtLeastAverage ==
    ReportOfNonEmptySnapshot =>
       \A i \in 1..Len(returned.value.byCategory) :
          LET stats == returned.value.byCategory[i].value
          IN  stats.p95 * stats.average.den >= stats.average.num

\* C20 amended: in every category of fewer than 20 metrics of a report
\* generated from a snapshot with metrics, p95 is at least the average.
C20_P95AtLeastAverageBelowTwenty ==
    ReportOfNonEmptySnapshot =>
       \A i \in 1..Len(returned.value.byCategory) :
          LET stats == returned.value.byCategory[i].value
          IN  stats.count < 20 =>
                 stats.p95 * stats.average.den >= stats.average.num

\* a category of nineteen metrics that are not all equally slow
C20_Witness ==
    /\ ReportOfNonEmptySnapshot
    /\ \E i \in 1..Len(returned.value.byCategory) :
          LET stats == returned.value.byCategory[i].value
          IN  /\ stats.count = 19
              /\ stats.min < stats.max

\* the export just returned has a line with this text
HasLine(text) ==
    \E i \in 1..Len(returned.value) : returned.value[i].text = text

\* the header has been emitted exactly if the list has an element
HeaderIffNonEmpty(header, list) == HasLine(header) <=> Len(list) > 0

\* C18: a CSV, HTML or Markdown export has the header of the slowest
\* operations, of the regressions and of the recommendations exactly when
\* the exported report's slowestOperations, regressions and recommendations
\* list, respectively, is not empty.
C18_HeadersIffListsNonEmpty ==
    /\ ReturnedFrom("exportAsCsv") =>
          /\ HeaderIffNonEmpty("Slowest Operations",
                               returned.report.slowestOperations)
          /\ HeaderIffNonEmpty("Performance Regressions",
                               returned.report.regressions)
          /\ HeaderIffNonEmpty("Recommendations",
                               returned.report.recommendations)
    /\ ReturnedFrom("exportAsHtml") =>
          /\ HeaderIffNonEmpty("<h2>Slowest Operations</h2>",
                               returned.report.slowestOperations)
          /\ HeaderIffNonEmpty("<h2>Performance Regressions</h2>",
                               returned.report.regressions)
          /\ HeaderIffNonEmpty("<h2>Recommendations</h2>",
                               returned.report.recommendations)
    /\ ReturnedFrom("exportAsMarkdown") =>
          /\ HeaderIffNonEmpty("## Slowest Operations",
                               returned.report.slowestOperations)
          /\ HeaderIffNonEmpty("## Performance Regressions [warning sign]",
                               returned.report.regressions)
          /\ HeaderIffNonEmpty("## Recommendations",
                               returned.report.recommendations)

\* an HTML export of a report with regressions and slowest operations whose
\* recommendations were emptied: two of the three headers
C18_Witness ==
    /\ ReturnedFrom("exportAsHtml")
    /\ returned.report.slowestOperations # <<>>
    /\ returned.report.regressions # <<>>
    /\ returned.report.recommendations = <<>>
    /\ HasLine("<h2>Performance Regressions</h2>")
    /\ ~HasLine("<h2>Recommendations</h2>")

\* the line carries the value: it is its whole text or one of the values
\* interpolated into it
Carries(line, value) ==
    \/ line.text = value
    \/ \E i \in 1..Len(line.args) : line.args[i] = value

\* C21: a CSV export begins with a line that carries the title of the
\* exported report, followed by a line that carries its timestamp, and the
\* same report under another title exports to a different CSV text.
C21_CsvHeaderCarriesTitle ==
    ReturnedFrom("exportAsCsv") =>
       /\ Carries(returned.value[1], returned.report.title)
       /\ returned.value[2].args = <<[iso |-> returned.report.timestamp]>>
       /\ \A title \in ExportTitles \ {returned.report.title} :
             exportAsCsv([returned.report EXCEPT !.title = title])
                # returned.value

\* the five section headers of each format, in the order claimed
SectionHeaders ==
    [exportAsCsv |->
        <<"Summary", "Performance by Category", "Slowest Operations",
          "Performance Regressions", "Recommendations">>,
     exportAsHtml |->
        <<"<h2>Summary</h2>", "<h2>Performance by Category</h2>",
          "<h2>Slowest Operations</h2>", "<h2>Performance Regressions</h2>",
          "<h2>Recommendations</h2>">>,
     exportAsMarkdown |->
        <<"## Summary", "## Performance by Category", "## Slowest Operations",
          "## Performance Regressions [warning sign]", "## Recommendations">>]

\* the places of the lines with this text in the export just returned
PlacesOf(text) ==
    {i \in 1..Len(returned.value) : returned.value[i].text = text}

\* C22: in a CSV, HTML or Markdown export each section header occurs at most
\* once, the headers that occur stand in the order Summary, Performance by
\* Category, Slowest Operations, Performance Regressions, Recommendations,
\* and the first two always occur.
C22_SectionsInFixedOrder ==
    returned.op \in DOMAIN SectionHeaders =>
       LET headers == SectionHeaders[returned.op]
       IN  /\ \A a \in 1..5 : Cardinality(PlacesOf(headers[a])) <= 1
           /\ \A a \in 1..5 : \A b \in (a + 1)..5 :
                 \A i \in PlacesOf(headers[a]) :
                    \A j \in PlacesOf(headers[b]) : i < j
           /\ PlacesOf(headers[1]) # {}
           /\ PlacesOf(headers[2]) # {}

\* a CSV export of the empty report as generated: the summary, the
\* categories and the recommendations, without the two sections in between
C22_Witness ==
    /\ ReturnedFrom("exportAsCsv")
    /\ returned.report.summary.totalMetrics = 0
    /\ \A a \in {1, 2, 5} : PlacesOf(SectionHeaders.exportAsCsv[a]) # {}
    /\ \A a \in {3, 4} : PlacesOf(SectionHeaders.exportAsCsv[a]) = {}

\* the places of the store that hold a metric of this name
RetainedOf(name) == {i \in 1..Len(metrics) : metrics[i].name = name}

\* C23: calculateStats(name) returns null in every state where no retained
\* metric has exactly that name - on a fresh instance, after clearMetrics,
\* and after every observation of the name has been evicted by trimming -
\* and statistics over the retained metrics of the name otherwise.
C23_NoMetricOfNameGivesNull ==
    ReturnedFrom("calculateStats") =>
       LET name == returned.arguments[1]
       IN  IF RetainedOf(name) = {} THEN returned.value = Null
           ELSE /\ returned.value # Null
                /\ returned.value.count = Cardinality(RetainedOf(name))

\* the name was recorded since the last clearMetrics, the store is full of
\* metrics of another name, and calculateStats has answered null
C23_Witness ==
    /\ ReturnedFrom("calculateStats")
    /\ returned.value = Null
    /\ \E i \in 1..Len(recorded) : recorded[i].name = returned.arguments[1]
    /\ Len(metrics) = maxMetrics
    /\ Len(recorded) > maxMetrics

\* the calls that only answer
Answering ==
    {"detectRegressions", "calculateStats", "checkBenchmark", "getBenchmark",
     "getSnapshots", "getMetricsForName", "getMetricsForCategory"}

\* the calls of the report service
Reporting ==
    {"generateReport", "exportAsCsv", "exportAsHtml", "exportAsMarkdown"}

\* C24: detectRegressions, calculateStats, checkBenchmark, getBenchmark,
\* getSnapshots, getMetricsForName and getMetricsForCategory leave the
\* metric store, the snapshot history, the benchmark registry and the
\* regression threshold unchanged, and so do generateReport and the
\* exporters; createSnapshot changes the snapshot history only, whose
\* newest entry becomes the snapshot it returns.
C24_OnlyCreateSnapshotChangesState ==
    [][ /\ returned'.op \in Answering \cup Reporting =>
              UNCHANGED <<metrics, snapshots, benchmarks, regressionThreshold>>
        /\ (returned'.op = "createSnapshot" /\ created' = created + 1) =>
              /\ UNCHANGED <<metrics, benchmarks, regressionThreshold>>
              /\ snapshots'[Len(snapshots')] = returned'.value
              /\ Len(snapshots') = IF Len(snapshots) < maxSnapshots
                                   THEN Len(snapshots) + 1 ELSE maxSnapshots
      ]_vars

\* getSnapshots has answered with a full history while metrics are stored
C24_Witness ==
    /\ ReturnedFrom("getSnapshots")
    /\ Len(returned.value.items) = maxSnapshots
    /\ snapshots = returned.value.items
    /\ metrics # <<>>

\* the recommendations of the report just returned
Recommendations == returned.value.recommendations

PlacesOfLine(line) ==
    {i \in 1..Len(Recommendations) : Recommendations[i] = line}

\* the average of the category of the report just returned is above limit
ReportedAverageAbove(category, limit) ==
    \E i \in 1..Len(returned.value.byCategory) :
       CategoryAverageAbove(returned.value.byCategory[i], category, limit)

\* the names of the supplied regressions of severity 'critical', in order
SuppliedCriticalNames ==
    LET critical == SelectSeq(returned.regressions,
                              LAMBDA r : r.severity = "critical")
    IN  [i \in 1..Len(critical) |-> critical[i].metricName]

\* the four lines that come first, in their order, each with its condition
RuleLines ==
    << [line |-> [text |-> "Rendering performance is degraded. Consider optimizing component rendering or using virtualization for large lists.",
                  args |-> <<>>],
        due |-> ReportedAverageAbove("render", 500)],
       [line |-> [text |-> "Form/content generation is slow. Consider caching or lazy loading.",
                  args |-> <<>>],
        due |-> ReportedAverageAbove("generation", 200)],
       [line |-> [text |-> "UI updates are slow. Consider batching updates or using memoization.",
                  args |-> <<>>],
        due |-> ReportedAverageAbove("update", 300)],
       [line |-> [text |-> "Critical performance regressions detected in: ${names}",
                  args |-> SuppliedCriticalNames],
        due |-> SuppliedCriticalNames # <<>>] >>

VarianceLine(category) ==
    [text |-> "High variance in ${category} operations. Investigate outliers and optimize worst-case scenarios.",
     args |-> <<category>>]

\* C25: in a report generated from a snapshot with metrics, the render
\* line is present iff the 'render' average > 500, the generation line iff
\* the 'generation' average > 200, the update line iff the 'update'
\* average > 300, one line naming the supplied critical regressions in
\* supplied order iff there is one, each at most once and in this order,
\* followed by one variance line for every category with
\* (p99 - average) / average > 1, and by nothing else unless no line is due.
C25_RecommendationsInOrderUnderConditions ==
    ReportOfNonEmptySnapshot =>
       LET byCategory == returned.value.byCategory
           high == {i \in 1..Len(byCategory) :
                       CategoryVarianceHigh(byCategory[i].value)}
           due == {a \in 1..4 : RuleLines[a].due}
       IN  /\ \A a \in 1..4 :
                 Cardinality(PlacesOfLine(RuleLines[a].line)) =
                    IF a \in due THEN 1 ELSE 0
           /\ \A a \in 1..4 : \A b \in (a + 1)..4 :
                 \A i \in PlacesOfLine(RuleLines[a].line) :
                    \A j \in PlacesOfLine(RuleLines[b].line) : i < j
           /\ \A c \in 1..Len(byCategory) :
                 LET places == PlacesOfLine(VarianceLine(byCategory[c].key))
                 IN  /\ Cardinality(places) = IF c \in high THEN 1 ELSE 0
                     /\ \A j \in places : j > Cardinality(due)
           /\ (due # {} \/ high # {}) =>
                 Len(Recommendations) = Cardinality(due) + Cardinality(high)

\* a report with the render line, the critical line and a variance line
C25_Witness ==
    /\ ReportOfNonEmptySnapshot
    /\ Recommendations =
          << RuleLines[1].line, RuleLines[4].line, VarianceLine("generation") >>
    /\ RuleLines[4].line.args = <<"form-generation">>
    /\ Len(returned.regressions) = 2

\* the metrics of the snapshot the report was generated from
ReportedMetrics == returned.snapshot.metrics.items

\* the places of the slowest metrics of the snapshot
SlowestPlaces ==
    {i \in 1..Len(ReportedMetrics) :
        \A j \in 1..Len(ReportedMetrics) :
           ReportedMetrics[i].duration >= ReportedMetrics[j].duration}

\* C26: for a report generated from a snapshot with metrics, totalMetrics
\* is the number of metrics of the snapshot, totalDuration the sum of their
\* durations, fastestMetric has the least of the durations, and
\* slowestMetric is the first metric, in the snapshot's order, among those
\* of the greatest duration.
C26_SummaryTotalsAndExtremes ==
    ReportOfNonEmptySnapshot =>
       LET summary == returned.value.summary
           durations == [i \in 1..Len(ReportedMetrics) |->
                            ReportedMetrics[i].duration]
           first == CHOOSE i \in SlowestPlaces :
                       \A j \in SlowestPlaces : i <= j
       IN  /\ summary.totalMetrics = Len(ReportedMetrics)
           /\ summary.totalDuration = Sum(durations)
           /\ summary.slowestMetric =
                 [name |-> ReportedMetrics[first].name,
                  duration |-> ReportedMetrics[first].duration]
           /\ \A i \in 1..Len(durations) :
                 summary.fastestMetric.duration <= durations[i]
           /\ \E i \in 1..Len(durations) :
                 /\ summary.fastestMetric.duration = durations[i]
                 /\ summary.fastestMetric.name = ReportedMetrics[i].name

\* two metrics of different names share the greatest duration, after
\* faster ones, and the report names the earlier of the two
C26_Witness ==
    /\ ReportOfNonEmptySnapshot
    /\ Cardinality(SlowestPlaces) = 2
    /\ 1 \notin SlowestPlaces
    /\ \E i \in SlowestPlaces : \E j \in SlowestPlaces :
          /\ i < j
          /\ ReportedMetrics[i].name # ReportedMetrics[j].name
          /\ returned.value.summary.slowestMetric.name = ReportedMetrics[i].name
    /\ returned.value.summary.fastestMetric.duration
          < returned.value.summary.slowestMetric.duration

KeysOf(obj) == {obj[i].key : i \in 1..Len(obj)}

\* the places of the snapshot's own metrics list that hold the name
PlacesOfName(snapshot, name) ==
    {i \in 1..Len(snapshot.metrics.items) :
        snapshot.metrics.items[i].name = name}

RECURSIVE TotalOver(_, _)
\* the sum of the durations at the places
TotalOver(list, places) ==
    IF places = {} THEN 0
    ELSE LET i == CHOOSE j \in places : TRUE
         IN  list[i].duration + TotalOver(list, places \ {i})

\* C27: in every retained snapshot, averages and percentiles have one
\* entry for each distinct name of the snapshot's own metrics list and for
\* nothing else, and averages[name] is the sum of the durations of the
\* metrics of that name in the list divided by their number.
C27_SnapshotAveragesOverOwnMetrics ==
    \A s \in 1..Len(snapshots) :
       LET snapshot == snapshots[s]
           list == snapshot.metrics.items
           names == {list[i].name : i \in 1..Len(list)}
       IN  /\ KeysOf(snapshot.averages) = names
           /\ KeysOf(snapshot.percentiles) = names
           /\ Len(snapshot.averages) = Cardinality(names)
           /\ Len(snapshot.percentiles) = Cardinality(names)
           /\ \A a \in 1..Len(snapshot.averages) :
                 LET places == PlacesOfName(snapshot, snapshot.averages[a].key)
                     average == snapshot.averages[a].value
                 IN  /\ average.den > 0
                     /\ average.num * Cardinality(places)
                           = TotalOver(list, places) * average.den

\* the history holds a snapshot of two metrics of one name, of average 250,
\* and a later one of two names
C27_Witness ==
    /\ Len(snapshots) = 2
    /\ Len(snapshots[1].averages) = 1
    /\ snapshots[1].averages[1].value = Rat(500, 2)
    /\ Len(snapshots[1].metrics.items) = 2
    /\ Len(snapshots[2].averages) = 2

\* C29: detectRegressions never returns an alert whose previousAverage is
\* 0 or whose percentageChange came from a division by zero: a metric whose
\* average in the second-newest snapshot is exactly 0 is skipped, whatever
\* its average in the newest snapshot.
C29_ZeroPreviousAverageSkipped ==
    ReturnedFrom("detectRegressions") =>
       /\ \A i \in 1..Len(Alerts) :
             /\ Alerts[i].previousAverage.num # 0
             /\ Alerts[i].percentageChange.den # 0
       /\ Len(snapshots) >= 2 =>
             \A name \in KeysOf(PreviousAverages) :
                Lookup(PreviousAverages, name).num = 0 => name \notin AlertNames

\* detectRegressions has returned no alert for a metric whose average went
\* from 0 to the largest duration, at a threshold below zero
C29_Witness ==
    /\ ReturnedFrom("detectRegressions")
    /\ Len(snapshots) >= 2
    /\ regressionThreshold.num < 0
    /\ \E name \in Names :
          /\ InBothSnapshots(name)
          /\ Lookup(PreviousAverages, name) = FromInt(0)
          /\ Lookup(CurrentAverages, name) = FromInt(600)
          /\ name \notin AlertNames

IsPrefix(s, t) == Len(s) <= Len(t) /\ SubSeq(t, 1, Len(s)) = s

QueuedAt(turn) ==
    \E i \in SettledPlaces : pending[i].turn = turn

\* a measureAsync call leaves: it is the settled call that has waited
\* longest, and it records one metric of its own and returns or throws what
\* its work did; nothing else takes a call away
CallLeaves ==
    Len(pending') < Len(pending) =>
       \E i \in SettledPlaces :
          LET call == pending[i]
          IN  /\ \A j \in SettledPlaces : call.turn <= pending[j].turn
              /\ pending' = SubSeq(pending, 1, i - 1)
                               \o SubSeq(pending, i + 1, Len(pending))
              /\ nRecords' = nRecords + 1
              /\ Len(recorded') = Len(recorded) + 1
              /\ recorded'[Len(recorded')].name = call.name
              /\ recorded'[Len(recorded')].category = call.category
              /\ recorded'[Len(recorded')].timestamp = now
              /\ recorded'[Len(recorded')].duration = now - call.start
              /\ metrics'[Len(metrics')] = recorded'[Len(recorded')]
              /\ returned'.op = "measureAsync"
              /\ returned'.outcome = IF call.work.ok THEN "return" ELSE "throw"
              /\ returned'.value = call.work.value

\* while no call leaves, only a direct recordMetric call records
CallStays ==
    (Len(pending') >= Len(pending) /\ nRecords' # nRecords) =>
       /\ returned'.op = "recordMetric"
       /\ pending' = pending

\* C28: with measureAsync calls overlapping each other and recordMetric,
\* createSnapshot and clearMetrics calls, each call records exactly one
\* metric, when the job queued by the settling of its own work runs, so
\* that metrics enter the store in the order in which the works settle;
\* a call whose work has settled does record and return or throw; and the
\* store never holds more than maxMetrics metrics.
C28_OverlappingCallsRecordInCompletionOrder ==
    /\ [][CallLeaves /\ CallStays]_vars
    /\ [](Len(metrics) <= maxMetrics)
    /\ \A turn \in 1..MaxOverlap : QueuedAt(turn) ~> ~QueuedAt(turn)

\* two calls overlapped, the one started later has recorded first, and a
\* push beyond maxMetrics has trimmed the store since
C28_Witness ==
    /\ ReturnedFrom("measureAsync")
    /\ pending = <<>>
    /\ Len(recorded) = 3
    /\ Len(metrics) = maxMetrics
    /\ \E i \in 1..2 :
          /\ recorded[i].duration \in 0..MaxClock
          /\ recorded[3].duration \in 0..MaxClock
          /\ recorded[i].timestamp - recorded[i].duration
                > recorded[3].timestamp - recorded[3].duration
          /\ recorded[i].timestamp < recorded[3].timestamp

====
